---- MODULE Spec2Model ----
(***************************************************************************)
(* Graph import of graph_scripts/import_data.py with the registries of     *)
(* graph_scripts/mapping.py: node registration, node writes, relationship  *)
(* expansion and edge writes, as one sequential run.                       *)
(***************************************************************************)
EXTENDS Integers, Sequences, FiniteSets, TLC

VARIABLES
    pc,               \* position of the script: "start", "register", "nodes", "edges", "queries", "done", "error"
    error,            \* the exception that ended the run, "" while none
    site,             \* index of the next register_nodes call site
    TYPES_MAP,        \* mapping.TYPES_MAP, a dict in insertion order: sequence of [name, type]
    NODE_METADATA,    \* mapping.NODE_METADATA: name -> metadata dict
    EXPANSIONS,       \* mapping.EXPANSIONS: umbrella -> sequence of names
    DROP_COMPONENTS,  \* mapping.DROP_COMPONENTS
    RELATIONSHIPS,    \* mapping.RELATIONSHIPS: src type -> set of [rel, dst]
    all_nodes,        \* import_data.all_nodes, the snapshot of the registry keys
    nodeIdx,          \* how many entries of all_nodes the node loop has handled
    rowsDone,         \* how many relationship rows the edge loop has handled
    writes,           \* the calls made to the graph database, in order
    lastRow,          \* the relationship row handled last and the edge writes it made
    lastReg,          \* the register_nodes call made last and the registry before it
    resolved,         \* the names a chain of resolve_name_map calls returned
    lastSet,          \* the set_node_metadata call made last and the metadata before it
    lastCall,         \* the call of a database.py function made last and whether it reached tx.run
    lastUnion,        \* the _union_headers call made last and what it returned
    master,           \* the master CSV file of oran_pipeline.py: whether it exists, its header, its rows
    lastRun           \* the run_full_pipeline call made last, the master before it and its outcome

\* the variables of the functions that are followed on their own
unitVars == <<lastSet, lastCall, lastUnion, master, lastRun>>

vars == <<pc, error, site, TYPES_MAP, NODE_METADATA, EXPANSIONS, DROP_COMPONENTS,
          RELATIONSHIPS, all_nodes, nodeIdx, writes, rowsDone, lastRow, lastReg,
          resolved, unitVars>>

----------------------------------------------------------------------------
(* Bounds of the model *)

\* rows over all node tables of one run
MaxNodes == 3
\* relationship rows of one run
MaxRows == 1
\* length of a chain of resolve_name_map calls
MaxResolve == 2
\* set_node_metadata calls in a row
MaxSets == 2
\* calls of the database.py functions in a row
MaxCalls == 3
\* columns of a header handed to _union_headers
MaxHeader == 2
\* run_full_pipeline calls in a row
MaxRuns == 2

----------------------------------------------------------------------------
(* Values *)

\* Python None, and the result of a call that raised
None == "<None>"
Raise == "<raise>"

DRY_RUN == FALSE

\* the keys of mapping.NAMES_MAP as shipped
AliasKeys ==
    {"E2", "xApps", "xAPPs", "rApps", "rAPPs", "ASSET-C-29", "ASSET-C-30",
            "ASSET-C-08", "NFO/FOCOM",
            "Database holding data from xApp applications and E2 Node",
            "Database holding data from xApp applications and E2",
            "ML components deploying machine learning (xApps/rApps)",
            "Training or test data sets collected externally or internally",
            "Trained ML model", "Near-RT-RIC SW", "Non-RT-RIC SW",
            "O1 interface for streaming data", "E2 interface for streaming data",
            "ML prediction results", "A1 policies", "E2 node data",
            "Data transported over the O1 interface", "AAL software",
            "Hardware accelerator device firmware", "Non-RT-RIC", "airlink with UE",
            "E2 Functions", "Y1 Functions", "SMO Framework", "R1 interface",
            "A1 interface", "Apps/VNFs/CNFs", "Apps/VNFs/CNFs images", "O2"}

\* the value mapping.NAMES_MAP holds for key k
AliasTarget(k) ==
    CASE k = "E2" -> "E2 Interface"
      [] k \in {"xApps", "xAPPs"} -> "Near-RT RIC"
      [] k \in {"rApps", "rAPPs"} -> "Non-RT RIC"
      [] k \in {"ASSET-C-29", "ASSET-C-08", "NFO/FOCOM"} -> "O-Cloud"
      [] k = "ASSET-C-30" -> "External Components"
      [] k = "Database holding data from xApp applications and E2 Node" -> "Near-RT RIC"
      [] k = "Database holding data from xApp applications and E2" -> "Near-RT RIC"
      [] k = "ML components deploying machine learning (xApps/rApps)" -> "O-Cloud"
      [] k = "Training or test data sets collected externally or internally" -> "External Components"
      [] k = "Trained ML model" -> "External Components"
      [] k = "Near-RT-RIC SW" -> "Near-RT RIC"
      [] k = "Non-RT-RIC SW" -> "Non-RT RIC"
      [] k = "O1 interface for streaming data" -> "O1 Interface"
      [] k = "E2 interface for streaming data" -> "E2 Interface"
      [] k = "ML prediction results" -> "External Components"
      [] k = "A1 policies" -> "A1 Interface"
      [] k = "E2 node data" -> "Near-RT RIC"
      [] k = "Data transported over the O1 interface" -> "O1 Interface"
      [] k = "AAL software" -> "O-Cloud"
      [] k = "Hardware accelerator device firmware" -> "External Components"
      [] k = "Non-RT-RIC" -> "Non-RT RIC"
      [] k = "airlink with UE" -> "Airlink"
      [] k = "E2 Functions" -> "E2 Interface"
      [] k = "Y1 Functions" -> "Y1 Interface"
      [] k = "SMO Framework" -> "SMO"
      [] k = "R1 interface" -> "R1 Interface"
      [] k = "A1 interface" -> "A1 Interface"
      [] k \in {"Apps/VNFs/CNFs", "Apps/VNFs/CNFs images"} -> "SMO"
      [] k = "O2" -> "O2 Interface"

\* NAMES_MAP with one more inconsistency folded in, "E2 Functions" sent to
\* the short spelling "E2", itself a key
NAMES_MAP_chained ==
    [k \in AliasKeys |-> IF k = "E2 Functions" THEN "E2" ELSE AliasTarget(k)]

\* mapping.NAMES_MAP
NAMES_MAP == [k \in AliasKeys |-> AliasTarget(k)]

\* the key values the node tables of a run draw from: an alias key, its
\* target, and a name the alias table does not mention
Names == {"Non-RT-RIC", "Non-RT RIC", "O-CU-CP"}

\* the destination cells the relationship tables of a run draw from, each the
\* list of its tokens: the names above, a name no table registers
\* ("O-CU-UP"), an umbrella name ("O-CU") and the wildcard in three spellings
CellTexts ==
    { <<"All">>, <<"all">>, <<"ALL">>, <<"All", "O-CU-CP">>,
      <<"O-CU-CP">>, <<"Non-RT-RIC", "Non-RT RIC">>, <<"Non-RT RIC", "Non-RT-RIC">>,
      <<"Non-RT-RIC", "O-CU-CP", "Non-RT RIC">>,
      <<"O-CU-CP", "O-CU-UP">>, <<"O-CU-UP", "O-CU-CP">>,
      <<"O-CU", "Non-RT-RIC">>, <<"O-CU-CP", "O-CU">> }

\* the values a metadata column of a row draws from
MetaValues == {"v1", "v2"}

\* the register_nodes call sites of import_data.py that the model follows
\* (components_df and threats_df); the metadata columns of the threats are
\* threats_df.columns[1:], of which the model keeps the two the script reads
RegisterSites ==
    << [component_type |-> "Component", metadata_cols |-> <<>>],
       [component_type |-> "Threat",
        metadata_cols |-> <<"Affected Components", "Extra Interfaces">>] >>

\* the expand_relationship call sites of import_data.py that the model
\* follows (threats_df with "Affected Components" and with "Extra
\* Interfaces"): table, relationship name, expansion base, and reverse, which
\* no call site passes and so has its default
RelationshipSites ==
    { [df |-> "Threat", relationship |-> "TARGETS", expansion |-> "all_components",
       reverse |-> FALSE],
      [df |-> "Threat", relationship |-> "TARGETS", expansion |-> "None",
       reverse |-> FALSE] }

\* the two configurations of the static tables the model runs under: both
\* empty, as shipped, and both filled
Configurations ==
    { [expansions |-> <<>>, drop |-> {}],
      [expansions |-> << [key |-> "O-CU", value |-> <<"O-CU-CP", "O-CU-UP">>] >>,
       drop |-> {"O-CU-UP", "Non-RT RIC"}] }

----------------------------------------------------------------------------
(* Python dicts: a dict is the sequence of its [key, value] items in        *)
(* insertion order                                                          *)

DictKeys(d) == {d[i].key : i \in 1..Len(d)}

DictHas(d, k) == k \in DictKeys(d)

\* d.get(k, default)
DictGet(d, k, default) ==
    IF DictHas(d, k)
    THEN d[CHOOSE i \in 1..Len(d) : d[i].key = k].value
    ELSE default

\* d[k] = v: a present key keeps its position
DictSet(d, k, v) ==
    IF DictHas(d, k)
    THEN [i \in 1..Len(d) |-> IF d[i].key = k THEN [key |-> k, value |-> v] ELSE d[i]]
    ELSE Append(d, [key |-> k, value |-> v])

\* list(d.keys())
DictKeyList(d) == [i \in 1..Len(d) |-> d[i].key]

\* sequences over S of length at most n
SeqsUpTo(S, n) == UNION {[1..k -> S] : k \in 0..n}

\* the set of the elements of a sequence
Range(s) == {s[i] : i \in 1..Len(s)}

----------------------------------------------------------------------------
(* mapping.py *)

\* str.lower() on the tokens of the model
lower(s) ==
    CASE s \in {"all", "All", "ALL"} -> "all"
      [] s = "Non-RT-RIC" -> "non-rt-ric"
      [] s = "Non-RT RIC" -> "non-rt ric"
      [] s = "O-CU-CP" -> "o-cu-cp"
      [] s = "O-CU-UP" -> "o-cu-up"
      [] s = "O-CU" -> "o-cu"
      [] OTHER -> s

\* resolve_name_map(name): the alias target, the name itself when it is no key
resolve_name_map(name) ==
    LET real_name == IF name \in DOMAIN NAMES_MAP THEN NAMES_MAP[name] ELSE None
    IN  IF real_name = None \/ real_name = "" THEN name ELSE real_name

\* resolve_name_to_type(name) over a registry: the type, or Raise
resolve_type_in(types, name) ==
    LET component_type == DictGet(types, name, None)
    IN  IF component_type = None \/ component_type = "" THEN Raise ELSE component_type

resolve_name_to_type(name) == resolve_type_in(TYPES_MAP, name)

\* get_expansions(component)
get_expansions(component) == DictGet(EXPANSIONS, component, <<component>>)

\* drop_component(item)
drop_component(item) == item \in DROP_COMPONENTS

\* get_node_metadata(node): the stored dict, the empty dict standing for None
get_node_metadata(node) == DictGet(NODE_METADATA, node, <<>>)

\* the loop of set_node_metadata over zip(nodes, metadata_list), on the
\* metadata dict st.meta, stopping at the first node that raises; the test
\* is `metadata in data`
RECURSIVE set_node_metadata_loop(_, _, _, _)
set_node_metadata_loop(st, nodes, tag, metadata_list) ==
    IF nodes = <<>> \/ metadata_list = <<>> \/ st.raised
    THEN st
    ELSE LET node == Head(nodes)
             metadata == Head(metadata_list)
             data == DictGet(st.meta, node, <<>>)
         IN  set_node_metadata_loop(
                 IF DictHas(data, metadata)
                 THEN [st EXCEPT !.raised = TRUE]
                 ELSE [st EXCEPT !.meta = DictSet(@, node, DictSet(data, tag, metadata))],
                 Tail(nodes), tag, Tail(metadata_list))

\* set_node_metadata(nodes, tag, metadata_list) on the metadata dict meta
set_node_metadata(meta, nodes, tag, metadata_list) ==
    IF Len(nodes) # Len(metadata_list)
    THEN [meta |-> meta, raised |-> TRUE]
    ELSE set_node_metadata_loop([meta |-> meta, raised |-> FALSE], nodes, tag, metadata_list)

\* get_registered_nodes()
get_registered_nodes == DictKeyList(TYPES_MAP)

\* record_relationship(src_type, dst_type, relationship_type) on a schema dict
record_relationship(rels, src_type, dst_type, relationship_type) ==
    LET dsts == DictGet(rels, src_type, {})
    IN  DictSet(rels, src_type, dsts \cup {[rel |-> relationship_type, dst |-> dst_type]})

\* the metadata dict register_nodes builds for a row
RowMetadata(row, metadata_cols) ==
    [i \in 1..Len(metadata_cols) |-> [key |-> metadata_cols[i], value |-> row.value]]

\* RegisterRow storing the metadata before the check for a registered name
RegisterRow_metadataFirst(st, row, component_type, metadata_cols) ==
    LET component == row.key
        metadata == RowMetadata(row, metadata_cols)
        stored == IF metadata # <<>> THEN DictSet(st.meta, component, metadata) ELSE st.meta
    IN  IF DictHas(st.types, component)
        THEN [st EXCEPT !.meta = stored, !.raised = TRUE]
        ELSE [st EXCEPT !.meta = stored,
                        !.types = DictSet(@, component, component_type)]

\* RegisterRow without the check for a registered name: the row overwrites
RegisterRow_overwrite(st, row, component_type, metadata_cols) ==
    LET component == row.key
        metadata == RowMetadata(row, metadata_cols)
    IN  [st EXCEPT
           !.meta = IF metadata # <<>> THEN DictSet(@, component, metadata) ELSE @,
           !.types = DictSet(@, component, component_type)]

\* one iteration of the loop of register_nodes on the registries st
RegisterRow(st, row, component_type, metadata_cols) ==
    LET component == row.key
        metadata == RowMetadata(row, metadata_cols)
    IN  IF DictHas(st.types, component)
        THEN [st EXCEPT !.raised = TRUE]
        ELSE [st EXCEPT
                !.meta = IF metadata # <<>> THEN DictSet(@, component, metadata) ELSE @,
                !.types = DictSet(@, component, component_type)]

\* register_nodes(df, key_col, component_type, metadata_cols): the rows in
\* order, stopping at the first that raises
RECURSIVE register_nodes(_, _, _, _)
register_nodes(st, df, component_type, metadata_cols) ==
    IF df = <<>> \/ st.raised
    THEN st
    ELSE register_nodes(RegisterRow(st, Head(df), component_type, metadata_cols),
                        Tail(df), component_type, metadata_cols)

----------------------------------------------------------------------------
(* helpers.py and database.py *)

\* cleanup_string(s) on the column names of the model: lower(), then " " to
\* "_", ":" removed, "/" to "_", "(" and ")" removed, "." to "_"; a string
\* these leave alone is returned as it is
cleanup_string(s) ==
    CASE s = "Affected Components" -> "affected_components"
      [] s = "Extra Interfaces" -> "extra_interfaces"
      [] s = "Name" -> "name"
      [] s = "Description" -> "description"
      [] s = "Source" -> "source"
      [] s = "URL" -> "url"
      [] s = "Url" -> "url"
      [] s = "Date Published" -> "date_published"
      [] s = "Date.Published" -> "date_published"
      [] s = "CVSS (V3.1)" -> "cvss_v3_1"
      [] s = "Spec. Issue" -> "spec__issue"
      [] OTHER -> s

\* cleanup_key_names(d): a dict comprehension, a later item overwriting an
\* earlier one of the same cleaned key
RECURSIVE cleanup_key_names_from(_, _)
cleanup_key_names_from(d, out) ==
    IF d = <<>>
    THEN out
    ELSE cleanup_key_names_from(Tail(d), DictSet(out, cleanup_string(Head(d).key), Head(d).value))

cleanup_key_names(d) == cleanup_key_names_from(d, <<>>)

\* dict.update(other)
RECURSIVE DictUpdate(_, _)
DictUpdate(d, other) ==
    IF other = <<>> THEN d ELSE DictUpdate(DictSet(d, Head(other).key, Head(other).value), Tail(other))

\* "-" in key, on the attribute keys of the model
HasHyphen(key) == key \in {"threat-id"}

\* insert_row(tx, component_name, row): whether it raises before the write,
\* and the database call it makes otherwise
insert_row_raises(row) == \E k \in DictKeys(row) : HasHyphen(k)

insert_row(component_name, row) ==
    [op |-> "insert_row", type |-> component_name, row |-> row]

\* create_relationship(tx, node1_type, "name", node1_id, node2_type, "name",
\* node2_id, relationship_type, metadata): the database call
create_relationship(node1_type, node1_id, node2_type, node2_id, relationship_type, metadata) ==
    [op |-> "create_relationship", src_type |-> node1_type, src |-> node1_id,
     dst_type |-> node2_type, dst |-> node2_id, rel |-> relationship_type,
     metadata |-> metadata]

\* the graph in the database: the nodes in the order of their creation, each
\* a label and its properties, and the relationships between them
EmptyGraph == [nodes |-> <<>>, edges |-> <<>>]

\* MATCH (a:type {name: id}): the nodes of the graph that match, by index
Matching(g, type, id) ==
    SelectSeq([i \in 1..Len(g.nodes) |-> i],
              LAMBDA i : g.nodes[i].type = type /\ DictGet(g.nodes[i].row, "name", None) = id)

\* the effect of a database call w on the graph g: `MATCH (n) DETACH DELETE
\* n` of drop_all_data, `CREATE (c:label {...})` of insert_row, and `MATCH
\* (a:..), (b:..) CREATE (a)-[r:..]->(b)` of create_relationship, which
\* creates a relationship for every pair of matching nodes
ApplyWrite(g, w) ==
    CASE w.op = "drop_all_data" -> EmptyGraph
      [] w.op = "insert_row" ->
            [g EXCEPT !.nodes = Append(@, [type |-> w.type, row |-> w.row])]
      [] w.op = "create_relationship" ->
            LET as == Matching(g, w.src_type, w.src)
                bs == Matching(g, w.dst_type, w.dst)
            IN  [g EXCEPT !.edges = @ \o
                    [k \in 1..(Len(as) * Len(bs)) |->
                        [src |-> as[((k - 1) \div Len(bs)) + 1],
                         dst |-> bs[((k - 1) % Len(bs)) + 1],
                         rel |-> w.rel, metadata |-> w.metadata]]]

\* the graph after the database calls ws, made in order on the graph g
RECURSIVE GraphAfter(_, _)
GraphAfter(g, ws) ==
    IF ws = <<>> THEN g ELSE GraphAfter(ApplyWrite(g, Head(ws)), Tail(ws))

----------------------------------------------------------------------------
(* import_data.py *)

\* list(components_df["Component"]), list(interfaces_df["Interface"]): the
\* key column of the table registered under the type
RECURSIVE KeyColumn(_, _)
KeyColumn(types, component_type) ==
    IF types = <<>>
    THEN <<>>
    ELSE (IF Head(types).value = component_type THEN <<Head(types).key>> ELSE <<>>)
         \o KeyColumn(Tail(types), component_type)

all_components == KeyColumn(TYPES_MAP, "Component")

\* the expansion argument of a call site; <<None>> stands for None
ExpansionOf(site_expansion) ==
    CASE site_expansion = "all_components" -> all_components
      [] OTHER -> <<None>>

\* ExpandAll putting the concrete names of the umbrella tokens after the
\* other tokens
RECURSIVE ExpandAll_umbrellasLast(_)
ExpandAll_umbrellasLast(relationships) ==
    IF relationships = <<>>
    THEN <<>>
    ELSE IF DictHas(EXPANSIONS, Head(relationships))
    THEN ExpandAll_umbrellasLast(Tail(relationships)) \o get_expansions(Head(relationships))
    ELSE <<Head(relationships)>> \o ExpandAll_umbrellasLast(Tail(relationships))

\* [item for sublist in relationships for item in get_expansions(sublist)]
RECURSIVE ExpandAll(_)
ExpandAll(relationships) ==
    IF relationships = <<>>
    THEN <<>>
    ELSE get_expansions(Head(relationships)) \o ExpandAll(Tail(relationships))

\* MapDestination skipping an unregistered destination instead of raising
MapDestination_skipUnknown(st, raw_destination, node, node_type, relationship_name, reverse, metadata) ==
    LET destination_node == resolve_name_map(raw_destination)
        destination_node_type == resolve_name_to_type(destination_node)
    IN  IF drop_component(raw_destination) \/ destination_node \in Range(st.mapped_nodes)
        THEN st
        ELSE IF destination_node_type = Raise
        THEN [st EXCEPT !.mapped_nodes = Append(@, destination_node)]
        ELSE [st EXCEPT
                !.mapped_nodes = Append(@, destination_node),
                !.rels = record_relationship(@, node_type, destination_node_type,
                                             relationship_name),
                !.calls = Append(@, create_relationship(
                              node_type, node, destination_node_type, destination_node,
                              relationship_name, metadata))]

\* MapDestination remembering the raw token, not the resolved name
MapDestination_dedupRaw(st, raw_destination, node, node_type, relationship_name, reverse, metadata) ==
    LET destination_node == resolve_name_map(raw_destination)
        destination_node_type == resolve_name_to_type(destination_node)
    IN  IF drop_component(raw_destination) \/ raw_destination \in Range(st.mapped_nodes)
        THEN st
        ELSE IF destination_node_type = Raise
        THEN [st EXCEPT !.mapped_nodes = Append(@, raw_destination), !.raised = TRUE]
        ELSE [st EXCEPT
                !.mapped_nodes = Append(@, raw_destination),
                !.rels = record_relationship(@, node_type, destination_node_type,
                                             relationship_name),
                !.calls = Append(@, create_relationship(
                              node_type, node, destination_node_type, destination_node,
                              relationship_name, metadata))]

\* MapDestination recording the relationship only after the write returned
MapDestination_recordAfter(st, raw_destination, node, node_type, relationship_name, reverse, metadata) ==
    IF drop_component(raw_destination)
    THEN st
    ELSE LET destination_node == resolve_name_map(raw_destination)
         IN  IF destination_node \in Range(st.mapped_nodes)
             THEN st
             ELSE LET destination_node_type == resolve_name_to_type(destination_node)
                      call == create_relationship(node_type, node, destination_node_type,
                                                  destination_node, relationship_name, metadata)
                      fails == ~DRY_RUN /\ Len(st.calls) + 1 = st.failAt
                  IN  IF destination_node_type = Raise
                      THEN [st EXCEPT !.mapped_nodes = Append(@, destination_node),
                                      !.raised = TRUE]
                      ELSE IF fails
                      THEN [st EXCEPT !.mapped_nodes = Append(@, destination_node),
                                      !.failed = <<call>>, !.raised = TRUE]
                      ELSE [st EXCEPT
                              !.mapped_nodes = Append(@, destination_node),
                              !.rels = record_relationship(@, node_type, destination_node_type,
                                                           relationship_name),
                              !.calls = IF DRY_RUN THEN @ ELSE Append(@, call)]

\* one iteration of the loop over the destinations of a row (lines 217-256);
\* st carries mapped_nodes, the database calls that returned, the schema
\* dict, whether an exception was raised, the number failAt of the write of
\* this row that the database fails (0: none) and that write once it failed
MapDestination(st, raw_destination, node, node_type, relationship_name, reverse, metadata) ==
    IF drop_component(raw_destination)
    THEN st
    ELSE LET destination_node == resolve_name_map(raw_destination)
         IN  IF destination_node \in Range(st.mapped_nodes)
             THEN st
             ELSE LET destination_node_type == resolve_name_to_type(destination_node)
                      src_node == IF reverse THEN destination_node ELSE node
                      dest_node == IF reverse THEN node ELSE destination_node
                      src_node_type == IF reverse THEN destination_node_type ELSE node_type
                      dest_node_type == IF reverse THEN node_type ELSE destination_node_type
                      call == create_relationship(src_node_type, src_node, dest_node_type,
                                                  dest_node, relationship_name, metadata)
                      fails == ~DRY_RUN /\ Len(st.calls) + 1 = st.failAt
                  IN  IF destination_node_type = Raise
                      THEN [st EXCEPT !.mapped_nodes = Append(@, destination_node),
                                      !.raised = TRUE]
                      ELSE [st EXCEPT
                              !.mapped_nodes = Append(@, destination_node),
                              !.rels = record_relationship(@, src_node_type, dest_node_type,
                                                           relationship_name),
                              !.calls = IF DRY_RUN \/ fails THEN @ ELSE Append(@, call),
                              !.failed = IF fails THEN <<call>> ELSE @,
                              !.raised = @ \/ fails]

\* MapDestinations going on with the next token after an exception
RECURSIVE MapDestinations_noStop(_, _, _, _, _, _, _)
MapDestinations_noStop(st, relationships, node, node_type, relationship_name, reverse, metadata) ==
    IF relationships = <<>>
    THEN st
    ELSE MapDestinations_noStop(
             MapDestination(st, Head(relationships), node, node_type, relationship_name,
                            reverse, metadata),
             Tail(relationships), node, node_type, relationship_name, reverse, metadata)

\* the loop over the destinations of a row, stopping at the first exception
RECURSIVE MapDestinations(_, _, _, _, _, _, _)
MapDestinations(st, relationships, node, node_type, relationship_name, reverse, metadata) ==
    IF relationships = <<>> \/ st.raised
    THEN st
    ELSE MapDestinations(
             MapDestination(st, Head(relationships), node, node_type, relationship_name,
                            reverse, metadata),
             Tail(relationships), node, node_type, relationship_name, reverse, metadata)

\* IsWildcard holding for a list with "all" among its tokens
IsWildcard_anyToken(relationships) ==
    \E i \in 1..Len(relationships) : lower(relationships[i]) = "all"

\* IsWildcard comparing the token without lower()
IsWildcard_caseSensitive(relationships) == Len(relationships) = 1 /\ relationships[1] = "all"

\* len(relationships) == 1 and relationships[0].lower() == "all"
IsWildcard(relationships) == Len(relationships) = 1 /\ lower(relationships[1]) = "all"

\* MaterializeRow taking an expansion base of None for an empty list
MaterializeRow_noneIsEmpty(row, rels, failAt) ==
    LET node == resolve_name_map(row.node)
        node_type == resolve_name_to_type(node)
        st0 == [mapped_nodes |-> <<>>, calls |-> <<>>, rels |-> rels, raised |-> FALSE,
                failAt |-> failAt, failed |-> <<>>]
        wildcard == IsWildcard(row.cell.tokens)
        relationships == IF wildcard THEN row.expansion ELSE row.cell.tokens
        metadata == << [key |-> "all", value |-> wildcard] >>
    IN  IF node_type = Raise
        THEN [calls |-> <<>>, rels |-> rels, raised |-> "ValueError", skipped |-> FALSE,
              failed |-> <<>>]
        ELSE IF row.cell.isna
        THEN [calls |-> <<>>, rels |-> rels, raised |-> "", skipped |-> TRUE,
              failed |-> <<>>]
        ELSE IF relationships = <<None>>
        THEN [calls |-> <<>>, rels |-> rels, raised |-> "", skipped |-> FALSE,
              failed |-> <<>>]
        ELSE LET st == MapDestinations(st0, ExpandAll(relationships), node, node_type,
                                       row.relationship_name, row.reverse, metadata)
             IN  [calls |-> st.calls, rels |-> st.rels,
                  raised |-> IF st.failed # <<>> THEN "Neo4jError"
                             ELSE IF st.raised THEN "ValueError" ELSE "",
                  skipped |-> FALSE, failed |-> st.failed]

\* MaterializeRow looking up the key of the row as it stands in the table
MaterializeRow_rawKey(row, rels, failAt) ==
    LET node == row.node
        node_type == resolve_name_to_type(node)
        st0 == [mapped_nodes |-> <<>>, calls |-> <<>>, rels |-> rels, raised |-> FALSE,
                failAt |-> failAt, failed |-> <<>>]
        wildcard == IsWildcard(row.cell.tokens)
        relationships == IF wildcard THEN row.expansion ELSE row.cell.tokens
        metadata == << [key |-> "all", value |-> wildcard] >>
    IN  IF node_type = Raise
        THEN [calls |-> <<>>, rels |-> rels, raised |-> "ValueError", skipped |-> FALSE,
              failed |-> <<>>]
        ELSE IF row.cell.isna
        THEN [calls |-> <<>>, rels |-> rels, raised |-> "", skipped |-> TRUE,
              failed |-> <<>>]
        ELSE IF relationships = <<None>>
        THEN [calls |-> <<>>, rels |-> rels, raised |-> "TypeError", skipped |-> FALSE,
              failed |-> <<>>]
        ELSE LET st == MapDestinations(st0, ExpandAll(relationships), node, node_type,
                                       row.relationship_name, row.reverse, metadata)
             IN  [calls |-> st.calls, rels |-> st.rels,
                  raised |-> IF st.failed # <<>> THEN "Neo4jError"
                             ELSE IF st.raised THEN "ValueError" ELSE "",
                  skipped |-> FALSE, failed |-> st.failed]

\* one iteration of the loop over all_relationships (lines 189-256) on the
\* row (node, relationships, relationship_name, expansion, reverse); the cell
\* is [isna, tokens], tokens being the cell split on ", " and stripped.
\* failAt is the number of the write of this row that the database fails,
\* 0 for none. The result: the database calls that returned, the schema
\* dict, raised, skipped and the write that failed
MaterializeRow(row, rels, failAt) ==
    LET node == resolve_name_map(row.node)
        node_type == resolve_name_to_type(node)
        st0 == [mapped_nodes |-> <<>>, calls |-> <<>>, rels |-> rels, raised |-> FALSE,
                failAt |-> failAt, failed |-> <<>>]
        wildcard == IsWildcard(row.cell.tokens)
        relationships == IF wildcard THEN row.expansion ELSE row.cell.tokens
        metadata == << [key |-> "all", value |-> wildcard] >>
    IN  IF node_type = Raise
        THEN [calls |-> <<>>, rels |-> rels, raised |-> "ValueError", skipped |-> FALSE,
              failed |-> <<>>]
        ELSE IF row.cell.isna
        THEN [calls |-> <<>>, rels |-> rels, raised |-> "", skipped |-> TRUE,
              failed |-> <<>>]
        ELSE IF relationships = <<None>>
        THEN [calls |-> <<>>, rels |-> rels, raised |-> "TypeError", skipped |-> FALSE,
              failed |-> <<>>]
        ELSE LET st == MapDestinations(st0, ExpandAll(relationships), node, node_type,
                                       row.relationship_name, row.reverse, metadata)
             IN  [calls |-> st.calls, rels |-> st.rels,
                  raised |-> IF st.failed # <<>> THEN "Neo4jError"
                             ELSE IF st.raised THEN "ValueError" ELSE "",
                  skipped |-> FALSE, failed |-> st.failed]

----------------------------------------------------------------------------
(* oran_pipeline.py *)

ACADEMIC_COLUMNS ==
    <<"Name", "Type", "Description", "Target Components / Interfaces",
      "Affected Components / Interfaces", "Reference">>

\* str.strip() on the strings of the model
strip(s) ==
    CASE s \in {" x", "x "} -> "x"
      [] s = " Name" -> "Name"
      [] OTHER -> s

\* the loop of _union_headers over incoming (lines 79-81)
RECURSIVE union_append(_, _)
union_append(out, incoming) ==
    IF incoming = <<>>
    THEN out
    ELSE union_append(IF Head(incoming) \in Range(out) THEN out
                      ELSE Append(out, Head(incoming)),
                      Tail(incoming))

\* if prov in out: out.remove(prov); out.append(prov)
move_to_end(out, prov) ==
    IF prov \in Range(out)
    THEN LET i == CHOOSE k \in 1..Len(out) :
                     out[k] = prov /\ \A j \in 1..(k - 1) : out[j] # prov
         IN  SubSeq(out, 1, i - 1) \o SubSeq(out, i + 1, Len(out)) \o <<prov>>
    ELSE out

\* _union_headers leaving the provenance columns where they are
_union_headers_noMove(existing, incoming) ==
    LET out == union_append(existing, incoming)
    IN  IF out # <<>> THEN out ELSE ACADEMIC_COLUMNS

\* _union_headers(existing, incoming)
_union_headers(existing, incoming) ==
    LET out == move_to_end(move_to_end(union_append(existing, incoming), "__source_file"),
                           "__source_doc")
    IN  IF out # <<>> THEN out ELSE ACADEMIC_COLUMNS

\* str(v) of the list csv.DictReader stores under the key None for the
\* fields of a row beyond the header
StrOfRest(cells) ==
    CASE cells = <<"t">> -> "['t']"
      [] OTHER -> "[...]"

\* csv.DictReader on one row: dict(zip(fieldnames, row)), the fields beyond
\* the header under the key None, the missing fields None
RECURSIVE zip_row(_, _, _)
zip_row(d, fieldnames, cells) ==
    IF fieldnames = <<>>
    THEN IF cells = <<>> THEN d ELSE DictSet(d, None, StrOfRest(cells))
    ELSE zip_row(DictSet(d, Head(fieldnames), IF cells = <<>> THEN None ELSE Head(cells)),
                 Tail(fieldnames),
                 IF cells = <<>> THEN <<>> ELSE Tail(cells))

\* list(csv.DictReader(f)) with None replaced by "" (lines 106 and 130)
DictReader(file) ==
    [i \in 1..Len(file.rows) |->
        LET d == zip_row(<<>>, file.header, file.rows[i])
        IN  [k \in 1..Len(d) |->
                [key |-> d[k].key, value |-> IF d[k].value = None THEN "" ELSE d[k].value]]]

\* iter_run_rows_from taking the rows of a file that does not decode as well
RECURSIVE iter_run_rows_from_noSkip(_, _)
iter_run_rows_from_noSkip(st, run_dir) ==
    IF run_dir = <<>>
    THEN st
    ELSE LET p == Head(run_dir)
             header == [i \in 1..Len(p.header) |-> strip(p.header[i])]
         IN  iter_run_rows_from_noSkip(
                 IF p.header # <<>>
                 THEN [headers |-> _union_headers(st.headers, header),
                       rows |-> st.rows \o DictReader(p)]
                 ELSE st,
                 Tail(run_dir))

\* the loop of _iter_run_rows over the CSV files of the run (lines 92-110):
\* a file that raises under both delimiters (its bytes are no UTF-8) and a
\* file without field names add nothing
RECURSIVE iter_run_rows_from(_, _)
iter_run_rows_from(st, run_dir) ==
    IF run_dir = <<>>
    THEN st
    ELSE LET p == Head(run_dir)
             header == [i \in 1..Len(p.header) |-> strip(p.header[i])]
         IN  iter_run_rows_from(
                 IF p.decodes /\ p.header # <<>>
                 THEN [headers |-> _union_headers(st.headers, header),
                       rows |-> st.rows \o DictReader(p)]
                 ELSE st,
                 Tail(run_dir))

\* _iter_run_rows(run_dir)
_iter_run_rows(run_dir) ==
    LET st == iter_run_rows_from([headers |-> <<>>, rows |-> <<>>], run_dir)
    IN  [headers |-> IF st.headers = <<>> THEN ACADEMIC_COLUMNS ELSE st.headers,
         rows |-> st.rows]

\* _count_csv_rows(run_dir): the files, and the rows after the first of each
\* file that decodes
RECURSIVE _count_csv_rows(_)
_count_csv_rows(run_dir) ==
    IF run_dir = <<>>
    THEN [files |-> 0, rows |-> 0]
    ELSE LET rest == _count_csv_rows(Tail(run_dir))
             p == Head(run_dir)
             rc == IF p.decodes THEN (IF p.header # <<>> THEN 1 ELSE 0) + Len(p.rows) ELSE 0
         IN  [files |-> rest.files + 1,
              rows |-> rest.rows + (IF rc > 0 THEN rc - 1 ELSE 0)]

\* _read_header(csv_path): the first row, [] for a file without one
_read_header(file) == file.header

\* for k in headers: row.setdefault(k, "")
RECURSIVE setdefaults(_, _)
setdefaults(row, headers) ==
    IF headers = <<>>
    THEN row
    ELSE setdefaults(IF DictHas(row, Head(headers)) THEN row
                     ELSE DictSet(row, Head(headers), ""),
                     Tail(headers))

\* _norm_row(row, cols)
_norm_row(row, cols) == [i \in 1..Len(cols) |-> strip(DictGet(row, cols[i], ""))]

\* select_new without seen.add(key): a row is compared with the master only
RECURSIVE select_new_noAdd(_, _, _)
select_new_noAdd(st, new_rows, headers) ==
    IF new_rows = <<>>
    THEN st
    ELSE LET r == setdefaults(Head(new_rows), headers)
             key == _norm_row(r, headers)
         IN  select_new_noAdd(IF key \in st.seen THEN st
                              ELSE [st EXCEPT !.to_add = Append(@, r)],
                              Tail(new_rows), headers)

\* the loop of _append_to_master over new_rows (lines 140-146)
RECURSIVE select_new(_, _, _)
select_new(st, new_rows, headers) ==
    IF new_rows = <<>>
    THEN st
    ELSE LET r == setdefaults(Head(new_rows), headers)
             key == _norm_row(r, headers)
         IN  select_new(IF key \in st.seen THEN st
                        ELSE [seen |-> st.seen \cup {key}, to_add |-> Append(st.to_add, r)],
                        Tail(new_rows), headers)

\* the writerow calls of lines 154-162: csv.DictWriter raises ValueError on
\* a row with a key that is no field name, the rows before it are written
RECURSIVE write_rows(_, _, _)
write_rows(st, dicts, fieldnames) ==
    IF dicts = <<>> \/ st.raised
    THEN st
    ELSE LET row == setdefaults(Head(dicts), fieldnames)
         IN  write_rows(
                 IF DictKeys(row) \subseteq Range(fieldnames)
                 THEN [st EXCEPT !.rows = Append(@, [i \in 1..Len(fieldnames) |->
                                                       DictGet(row, fieldnames[i], "")])]
                 ELSE [st EXCEPT !.raised = TRUE],
                 Tail(dicts), fieldnames)

\* _append_to_master that does not load the rows of the master
_append_to_master_noExisting(file, headers_in, new_rows) ==
    LET headers == IF file.exists THEN _union_headers(_read_header(file), headers_in)
                   ELSE headers_in
        existing_rows == IF file.exists THEN DictReader(file) ELSE <<>>
        sel == select_new([seen |-> {}, to_add |-> <<>>], new_rows, headers)
        w == write_rows([rows |-> <<>>, raised |-> FALSE], existing_rows \o sel.to_add,
                        headers)
    IN  [master |-> [exists |-> TRUE, header |-> headers, rows |-> w.rows],
         raised |-> w.raised, added |-> Len(sel.to_add),
         total |-> Len(existing_rows) + Len(sel.to_add)]

\* _append_to_master(master_csv, headers, new_rows) on the file at
\* master_csv: the file it leaves, whether it raised, and what it returns
_append_to_master(file, headers_in, new_rows) ==
    LET headers == IF file.exists THEN _union_headers(_read_header(file), headers_in)
                   ELSE headers_in
        existing_rows == IF file.exists THEN DictReader(file) ELSE <<>>
        seen == {_norm_row(existing_rows[i], headers) : i \in 1..Len(existing_rows)}
        sel == select_new([seen |-> seen, to_add |-> <<>>], new_rows, headers)
        w == write_rows([rows |-> <<>>, raised |-> FALSE], existing_rows \o sel.to_add,
                        headers)
    IN  [master |-> [exists |-> TRUE, header |-> headers, rows |-> w.rows],
         raised |-> w.raised, added |-> Len(sel.to_add),
         total |-> Len(existing_rows) + Len(sel.to_add)]

\* run_full_pipeline testing for dry-run only after the master is rewritten
run_full_pipeline_lateDryRun(file, run_dir, method, drop_ok, import_ok) ==
    LET it == _iter_run_rows(run_dir)
        base == [master |-> file, headers |-> it.headers, new_rows |-> it.rows,
                 subprocesses |-> <<>>, outcome |-> "returned", appended |-> FALSE,
                 added |-> 0, total |-> 0, files |-> 0, rows |-> 0]
        drop == IF method = "rebuild" THEN <<"drop_database.py">> ELSE <<>>
    IN  IF method \notin {"append", "rebuild", "dry-run"}
        THEN [base EXCEPT !.outcome = "ValueError", !.headers = <<>>, !.new_rows = <<>>]
        ELSE IF method = "rebuild" /\ ~drop_ok
        THEN [base EXCEPT !.subprocesses = drop, !.outcome = "CalledProcessError"]
        ELSE LET a == _append_to_master(file, it.headers, it.rows)
                 count == _count_csv_rows(run_dir)
             IN  IF a.raised
                 THEN [base EXCEPT !.master = a.master, !.subprocesses = drop,
                                   !.outcome = "ValueError"]
                 ELSE IF method = "dry-run"
                 THEN [base EXCEPT !.master = a.master, !.files = count.files,
                                   !.rows = count.rows]
                 ELSE [base EXCEPT
                         !.master = a.master,
                         !.subprocesses = Append(drop, "import_data.py"),
                         !.outcome = IF import_ok THEN "returned" ELSE "CalledProcessError",
                         !.appended = TRUE, !.added = a.added, !.total = a.total]

\* run_full_pipeline starting the import before it rewrites the master
run_full_pipeline_importFirst(file, run_dir, method, drop_ok, import_ok) ==
    LET it == _iter_run_rows(run_dir)
        base == [master |-> file, headers |-> it.headers, new_rows |-> it.rows,
                 subprocesses |-> <<>>, outcome |-> "returned", appended |-> FALSE,
                 added |-> 0, total |-> 0, files |-> 0, rows |-> 0]
        drop == IF method = "rebuild" THEN <<"drop_database.py">> ELSE <<>>
    IN  IF method \notin {"append", "rebuild", "dry-run"}
        THEN [base EXCEPT !.outcome = "ValueError", !.headers = <<>>, !.new_rows = <<>>]
        ELSE IF method = "dry-run"
        THEN LET count == _count_csv_rows(run_dir)
             IN  [base EXCEPT !.files = count.files, !.rows = count.rows]
        ELSE IF method = "rebuild" /\ ~drop_ok
        THEN [base EXCEPT !.subprocesses = drop, !.outcome = "CalledProcessError"]
        ELSE IF ~import_ok
        THEN [base EXCEPT !.subprocesses = Append(drop, "import_data.py"),
                          !.outcome = "CalledProcessError"]
        ELSE LET a == _append_to_master(file, it.headers, it.rows)
             IN  IF a.raised
                 THEN [base EXCEPT !.master = a.master,
                                   !.subprocesses = Append(drop, "import_data.py"),
                                   !.outcome = "ValueError"]
                 ELSE [base EXCEPT
                         !.master = a.master,
                         !.subprocesses = Append(drop, "import_data.py"),
                         !.appended = TRUE, !.added = a.added, !.total = a.total]

\* run_full_pipeline(run_dir, method) on the file at the master path;
\* drop_ok and import_ok tell whether the two scripts exit with 0
run_full_pipeline(file, run_dir, method, drop_ok, import_ok) ==
    LET it == _iter_run_rows(run_dir)
        base == [master |-> file, headers |-> it.headers, new_rows |-> it.rows,
                 subprocesses |-> <<>>, outcome |-> "returned", appended |-> FALSE,
                 added |-> 0, total |-> 0, files |-> 0, rows |-> 0]
        drop == IF method = "rebuild" THEN <<"drop_database.py">> ELSE <<>>
    IN  IF method \notin {"append", "rebuild", "dry-run"}
        THEN [base EXCEPT !.outcome = "ValueError", !.headers = <<>>, !.new_rows = <<>>]
        ELSE IF method = "dry-run"
        THEN LET count == _count_csv_rows(run_dir)
             IN  [base EXCEPT !.files = count.files, !.rows = count.rows]
        ELSE IF method = "rebuild" /\ ~drop_ok
        THEN [base EXCEPT !.subprocesses = drop, !.outcome = "CalledProcessError"]
        ELSE LET a == _append_to_master(file, it.headers, it.rows)
             IN  IF a.raised
                 THEN [base EXCEPT !.master = a.master, !.subprocesses = drop,
                                   !.outcome = "ValueError"]
                 ELSE [base EXCEPT
                         !.master = a.master,
                         !.subprocesses = Append(drop, "import_data.py"),
                         !.outcome = IF import_ok THEN "returned" ELSE "CalledProcessError",
                         !.appended = TRUE, !.added = a.added, !.total = a.total]

----------------------------------------------------------------------------
(* The run of import_data.py *)

NoRow == [node |-> "", cell |-> [isna |-> TRUE, tokens |-> <<>>], relationship_name |-> "",
          site |-> "", expansion |-> <<>>, reverse |-> FALSE]

NoReg == [df |-> <<>>, component_type |-> "", types |-> <<>>, meta |-> <<>>]

NoSet == [n |-> 0, nodes |-> <<>>, tag |-> "", metadata_list |-> <<>>, meta |-> <<>>,
          raised |-> FALSE]

NoCall == [n |-> 0, op |-> "", attrs |-> <<>>, ran |-> FALSE, raised |-> FALSE]

NoUnion == [existing |-> <<>>, incoming |-> <<>>, called |-> FALSE, out |-> <<>>]

\* no file at the path of the master CSV
NoFile == [exists |-> FALSE, header |-> <<>>, rows |-> <<>>]

NoRun == [n |-> 0, method |-> "", run_dir |-> <<>>, before |-> NoFile, headers |-> <<>>,
          new_rows |-> <<>>, subprocesses |-> <<>>, outcome |-> "", appended |-> FALSE,
          added |-> 0, total |-> 0, files |-> 0, rows |-> 0]

\* no function has been called on its own
UnitsIdle ==
    /\ lastSet = NoSet
    /\ lastCall = NoCall
    /\ lastUnion = NoUnion
    /\ master = NoFile
    /\ lastRun = NoRun

Init ==
    /\ pc = "start"
    /\ error = ""
    /\ site = 1
    /\ TYPES_MAP = <<>>
    /\ NODE_METADATA = <<>>
    /\ \E c \in Configurations :
          /\ EXPANSIONS = c.expansions
          /\ DROP_COMPONENTS = c.drop
    /\ RELATIONSHIPS = <<>>
    /\ all_nodes = <<>>
    /\ nodeIdx = 0
    /\ rowsDone = 0
    /\ writes = <<>>
    /\ lastRow = [row |-> NoRow, calls |-> <<>>, raised |-> "", skipped |-> FALSE,
                  failed |-> <<>>]
    /\ lastReg = NoReg
    /\ resolved = <<>>
    /\ UnitsIdle

\* the script going on to the registrations without drop_all_data
DropAllData_noDrop ==
    /\ pc = "start"
    /\ pc' = "register"
    /\ UNCHANGED <<error, site, TYPES_MAP, NODE_METADATA, EXPANSIONS, DROP_COMPONENTS,
                   RELATIONSHIPS, all_nodes, nodeIdx, rowsDone, writes, lastRow, lastReg,
                   resolved>>
    /\ UNCHANGED unitVars

\* lines 26-30: drop_all_data(driver)
DropAllData ==
    /\ pc = "start"
    /\ pc' = "register"
    /\ writes' = IF DRY_RUN THEN writes ELSE Append(writes, [op |-> "drop_all_data"])
    /\ UNCHANGED <<error, site, TYPES_MAP, NODE_METADATA, EXPANSIONS, DROP_COMPONENTS,
                   RELATIONSHIPS, all_nodes, nodeIdx, rowsDone, lastRow, lastReg,
                   resolved>>
    /\ UNCHANGED unitVars

\* the tables a call site may be handed: rows of a key and, where the call
\* site names metadata columns, the value of those columns
DataFrames(metadata_cols, n) ==
    SeqsUpTo([key : Names, value : IF metadata_cols = <<>> THEN {"v1"} ELSE MetaValues], n)

\* RegisterNodes handing each name it registers to the database at once
RegisterNodes_emit ==
    /\ pc = "register"
    /\ site <= Len(RegisterSites)
    /\ LET s == RegisterSites[site] IN
       \E df \in DataFrames(s.metadata_cols, MaxNodes - Len(TYPES_MAP)) :
          LET st == register_nodes([types |-> TYPES_MAP, meta |-> NODE_METADATA,
                                    raised |-> FALSE],
                                   df, s.component_type, s.metadata_cols)
              added == SubSeq(st.types, Len(TYPES_MAP) + 1, Len(st.types))
          IN  /\ TYPES_MAP' = st.types
              /\ NODE_METADATA' = st.meta
              /\ writes' = writes \o [i \in 1..Len(added) |->
                                insert_row(added[i].value,
                                           << [key |-> "name", value |-> added[i].key] >>)]
              /\ lastReg' = [df |-> df, component_type |-> s.component_type,
                             types |-> TYPES_MAP, meta |-> NODE_METADATA]
              /\ IF st.raised
                 THEN pc' = "error" /\ error' = "ValueError" /\ site' = site
                 ELSE pc' = pc /\ error' = error /\ site' = site + 1
    /\ UNCHANGED <<EXPANSIONS, DROP_COMPONENTS, RELATIONSHIPS, all_nodes, nodeIdx,
                   rowsDone, lastRow, resolved>>
    /\ UNCHANGED unitVars

\* lines 37-95: the next register_nodes call of the script
RegisterNodes ==
    /\ pc = "register"
    /\ site <= Len(RegisterSites)
    /\ LET s == RegisterSites[site] IN
       \E df \in DataFrames(s.metadata_cols, MaxNodes - Len(TYPES_MAP)) :
          LET st == register_nodes([types |-> TYPES_MAP, meta |-> NODE_METADATA,
                                    raised |-> FALSE],
                                   df, s.component_type, s.metadata_cols)
          IN  /\ TYPES_MAP' = st.types
              /\ NODE_METADATA' = st.meta
              /\ lastReg' = [df |-> df, component_type |-> s.component_type,
                             types |-> TYPES_MAP, meta |-> NODE_METADATA]
              /\ IF st.raised
                 THEN pc' = "error" /\ error' = "ValueError" /\ site' = site
                 ELSE pc' = pc /\ error' = error /\ site' = site + 1
    /\ UNCHANGED <<EXPANSIONS, DROP_COMPONENTS, RELATIONSHIPS, all_nodes, nodeIdx,
                   writes, rowsDone, lastRow, resolved>>
    /\ UNCHANGED unitVars

\* GetRegisteredNodes going on to the relationships without the node loop
GetRegisteredNodes_noNodes ==
    /\ pc = "register"
    /\ site > Len(RegisterSites)
    /\ all_nodes' = get_registered_nodes
    /\ pc' = "edges"
    /\ UNCHANGED <<error, site, TYPES_MAP, NODE_METADATA, EXPANSIONS, DROP_COMPONENTS,
                   RELATIONSHIPS, nodeIdx, rowsDone, writes, lastRow, lastReg, resolved>>
    /\ UNCHANGED unitVars

\* lines 97-169: the snapshot of the registry and the check for duplicates
GetRegisteredNodes ==
    /\ pc = "register"
    /\ site > Len(RegisterSites)
    /\ all_nodes' = get_registered_nodes
    /\ IF Len(all_nodes') # Cardinality(Range(all_nodes'))
       THEN pc' = "error" /\ error' = "ValueError"
       ELSE pc' = (IF all_nodes' = <<>> THEN "edges" ELSE "nodes") /\ error' = error
    /\ UNCHANGED <<site, TYPES_MAP, NODE_METADATA, EXPANSIONS, DROP_COMPONENTS,
                   RELATIONSHIPS, nodeIdx, writes, rowsDone, lastRow, lastReg,
                   resolved>>
    /\ UNCHANGED unitVars

\* lines 175-183: the attributes of the node written for a name
NodeRow(node) ==
    LET stored == get_node_metadata(node)
        node_metadata == IF stored # <<>> THEN cleanup_key_names(stored) ELSE <<>>
    IN  DictUpdate(<< [key |-> "name", value |-> node] >>, node_metadata)

\* CreateNode writing a node only when it has metadata
CreateNode_onlyWithMetadata ==
    /\ pc = "nodes"
    /\ nodeIdx < Len(all_nodes)
    /\ LET node == all_nodes[nodeIdx + 1]
           node_type == resolve_name_to_type(node)
           row == NodeRow(node)
           call == insert_row(node_type, row)
       IN  IF node_type = Raise \/ (~DRY_RUN /\ insert_row_raises(row))
           THEN /\ pc' = "error" /\ error' = "ValueError"
                /\ UNCHANGED <<nodeIdx, writes>>
           ELSE /\ nodeIdx' = nodeIdx + 1
                /\ writes' = IF DRY_RUN \/ Len(row) = 1 THEN writes
                             ELSE Append(writes, call)
                /\ pc' = (IF nodeIdx' = Len(all_nodes) THEN "edges" ELSE "nodes")
                /\ error' = error
    /\ UNCHANGED <<site, TYPES_MAP, NODE_METADATA, EXPANSIONS, DROP_COMPONENTS,
                   RELATIONSHIPS, all_nodes, rowsDone, lastRow, lastReg, resolved>>
    /\ UNCHANGED unitVars

\* lines 173-186: one iteration of the loop that creates the nodes
CreateNode ==
    /\ pc = "nodes"
    /\ nodeIdx < Len(all_nodes)
    /\ LET node == all_nodes[nodeIdx + 1]
           node_type == resolve_name_to_type(node)
           row == NodeRow(node)
           call == insert_row(node_type, row)
       IN  IF node_type = Raise \/ (~DRY_RUN /\ insert_row_raises(row))
           THEN /\ pc' = "error" /\ error' = "ValueError"
                /\ UNCHANGED <<nodeIdx, writes>>
           ELSE /\ nodeIdx' = nodeIdx + 1
                /\ writes' = IF DRY_RUN THEN writes ELSE Append(writes, call)
                /\ pc' = (IF nodeIdx' = Len(all_nodes) THEN "edges" ELSE "nodes")
                /\ error' = error
    /\ UNCHANGED <<site, TYPES_MAP, NODE_METADATA, EXPANSIONS, DROP_COMPONENTS,
                   RELATIONSHIPS, all_nodes, rowsDone, lastRow, lastReg, resolved>>
    /\ UNCHANGED unitVars

\* the cells of a destination column: null, or the tokens of the text
Cells ==
    {[isna |-> TRUE, tokens |-> <<>>]}
    \cup {[isna |-> FALSE, tokens |-> t] : t \in CellTexts}

\* the rows of all_relationships: a call site, a key of its table, a cell
RelationshipRow(s, n, c) ==
    [node |-> n, cell |-> c, relationship_name |-> s.relationship,
     site |-> s.expansion, expansion |-> ExpansionOf(s.expansion), reverse |-> s.reverse]

\* lines 189-256: one iteration of the loop that creates the relationships,
\* on the given row, the database failing the write numbered failAt
MaterializeStep(row, failAt) ==
    \E out \in {MaterializeRow(row, RELATIONSHIPS, failAt)} :
        /\ RELATIONSHIPS' = out.rels
        /\ writes' = writes \o out.calls
        /\ rowsDone' = rowsDone + 1
        /\ lastRow' = [row |-> row, calls |-> out.calls, raised |-> out.raised,
                       skipped |-> out.skipped, failed |-> out.failed]
        /\ IF out.raised # ""
           THEN pc' = "error" /\ error' = out.raised
           ELSE pc' = pc /\ error' = error
        /\ UNCHANGED <<site, TYPES_MAP, NODE_METADATA, EXPANSIONS, DROP_COMPONENTS,
                       all_nodes, nodeIdx, lastReg, resolved>>
        /\ UNCHANGED unitVars

\* the next row of all_relationships, the database accepting every write
CreateRelationships ==
    /\ pc = "edges"
    /\ rowsDone < MaxRows
    /\ \E s \in RelationshipSites :
       \E n \in Range(KeyColumn(TYPES_MAP, s.df)) :
       \E c \in Cells :
          MaterializeStep(RelationshipRow(s, n, c), 0)

\* the next row of all_relationships, the database failing one of the writes
\* of the row or none
CreateRelationshipsFaulty ==
    /\ pc = "edges"
    /\ rowsDone < MaxRows
    /\ \E s \in RelationshipSites :
       \E n \in Range(KeyColumn(TYPES_MAP, s.df)) :
       \E c \in Cells :
          LET row == RelationshipRow(s, n, c)
          IN  \E failAt \in 0..Len(MaterializeRow(row, RELATIONSHIPS, 0).calls) :
                 MaterializeStep(row, failAt)

\* lines 258-271: the queries (none are shipped), the schema report and the
\* close of the driver
Finish ==
    /\ pc = "edges"
    /\ pc' = "done"
    /\ UNCHANGED <<error, site, TYPES_MAP, NODE_METADATA, EXPANSIONS, DROP_COMPONENTS,
                   RELATIONSHIPS, all_nodes, nodeIdx, writes, rowsDone, lastRow,
                   lastReg, resolved>>
    /\ UNCHANGED unitVars

\* the strings the Name Resolver is tried on: the keys and the values of the
\* alias table and strings it does not mention
RawNames ==
    AliasKeys \cup {AliasTarget(k) : k \in AliasKeys}
    \cup {"O-CU-CP", "O-CU-UP", "O-CU", "All", "e2", "Non-RT-RIC ", ""}

\* the Name Resolver on its own: a raw string, before any call
InitNames ==
    /\ pc = "names"
    /\ error = ""
    /\ site = 1
    /\ TYPES_MAP = <<>>
    /\ NODE_METADATA = <<>>
    /\ EXPANSIONS = <<>>
    /\ DROP_COMPONENTS = {}
    /\ RELATIONSHIPS = <<>>
    /\ all_nodes = <<>>
    /\ nodeIdx = 0
    /\ rowsDone = 0
    /\ writes = <<>>
    /\ lastRow = [row |-> NoRow, calls |-> <<>>, raised |-> "", skipped |-> FALSE,
                  failed |-> <<>>]
    /\ lastReg = NoReg
    /\ \E x \in RawNames : resolved = <<x>>
    /\ UnitsIdle

\* resolve_name_map called on what the call before it returned
ResolveName ==
    /\ pc = "names"
    /\ Len(resolved) <= MaxResolve
    /\ resolved' = Append(resolved, resolve_name_map(resolved[Len(resolved)]))
    /\ UNCHANGED <<pc, error, site, TYPES_MAP, NODE_METADATA, EXPANSIONS, DROP_COMPONENTS,
                   RELATIONSHIPS, all_nodes, nodeIdx, rowsDone, writes, lastRow, lastReg>>
    /\ UNCHANGED unitVars

NextNames == ResolveName

SpecNames == InitNames /\ [][NextNames]_vars

\* the node tables of the runs that are followed through a failing edge
\* write: the keys of components_df and of threats_df
FaultTables ==
    { [components |-> <<"Non-RT RIC", "O-CU-CP">>, threats |-> <<"Non-RT-RIC">>],
      [components |-> <<"O-CU-CP">>, threats |-> <<"Non-RT RIC">>] }

\* the run after its node loop (lines 26-186) on one of these tables: the
\* registries register_nodes built, the snapshot, the nodes written
InitFaults ==
    /\ pc = "edges"
    /\ error = ""
    /\ site = Len(RegisterSites) + 1
    /\ \E t \in FaultTables :
          LET components_df == [i \in 1..Len(t.components) |->
                                  [key |-> t.components[i], value |-> "v1"]]
              threats_df == [i \in 1..Len(t.threats) |->
                               [key |-> t.threats[i], value |-> "v1"]]
              st1 == register_nodes([types |-> <<>>, meta |-> <<>>, raised |-> FALSE],
                                    components_df, RegisterSites[1].component_type,
                                    RegisterSites[1].metadata_cols)
              st2 == register_nodes(st1, threats_df, RegisterSites[2].component_type,
                                    RegisterSites[2].metadata_cols)
          IN  /\ TYPES_MAP = st2.types
              /\ NODE_METADATA = st2.meta
              /\ lastReg = [df |-> threats_df,
                            component_type |-> RegisterSites[2].component_type,
                            types |-> st1.types, meta |-> st1.meta]
    /\ \E c \in Configurations :
          /\ EXPANSIONS = c.expansions
          /\ DROP_COMPONENTS = c.drop
    /\ RELATIONSHIPS = <<>>
    /\ all_nodes = get_registered_nodes
    /\ nodeIdx = Len(all_nodes)
    /\ rowsDone = 0
    /\ writes = <<[op |-> "drop_all_data"]>>
                \o [i \in 1..Len(all_nodes) |->
                      insert_row(resolve_name_to_type(all_nodes[i]), NodeRow(all_nodes[i]))]
    /\ lastRow = [row |-> NoRow, calls |-> <<>>, raised |-> "", skipped |-> FALSE,
                  failed |-> <<>>]
    /\ resolved = <<>>
    /\ UnitsIdle

\* the edge loop of such a run over a database that may fail a write
NextFaults ==
    \/ CreateRelationshipsFaulty
    \/ Finish

SpecFaults == InitFaults /\ [][NextFaults]_vars

\* the node tables of the runs that are followed through rows that name
\* "all" among other tokens: a component named "All", one named "all", none
RowTables ==
    { [components |-> <<"O-CU-CP", "All">>, threats |-> <<"O-CU-UP">>],
      [components |-> <<"all", "O-CU-CP">>, threats |-> <<"O-CU-UP">>],
      [components |-> <<"O-CU-CP", "Non-RT RIC">>, threats |-> <<"O-CU-UP">>] }

\* the destination cells of these rows, each the list of its tokens
WildcardCells ==
    {[isna |-> FALSE, tokens |-> t] :
        t \in { <<"All">>, <<"all">>, <<"ALL">>, <<"O-CU-CP">>, <<"O-CU-CP", "All">>,
                <<"All", "O-CU-CP">>, <<"all", "All">>, <<"O-CU-CP", "ALL">>,
                <<"All", "All">>, <<"O-CU-CP", "all", "O-CU-CP">> }}

\* the run after its node loop (lines 26-186) on one of these tables
InitRows ==
    /\ pc = "edges"
    /\ error = ""
    /\ site = Len(RegisterSites) + 1
    /\ \E t \in RowTables :
          LET components_df == [i \in 1..Len(t.components) |->
                                  [key |-> t.components[i], value |-> "v1"]]
              threats_df == [i \in 1..Len(t.threats) |->
                               [key |-> t.threats[i], value |-> "v1"]]
              st1 == register_nodes([types |-> <<>>, meta |-> <<>>, raised |-> FALSE],
                                    components_df, RegisterSites[1].component_type,
                                    RegisterSites[1].metadata_cols)
              st2 == register_nodes(st1, threats_df, RegisterSites[2].component_type,
                                    RegisterSites[2].metadata_cols)
          IN  /\ TYPES_MAP = st2.types
              /\ NODE_METADATA = st2.meta
              /\ lastReg = [df |-> threats_df,
                            component_type |-> RegisterSites[2].component_type,
                            types |-> st1.types, meta |-> st1.meta]
    /\ \E c \in Configurations :
          /\ EXPANSIONS = c.expansions
          /\ DROP_COMPONENTS = c.drop
    /\ RELATIONSHIPS = <<>>
    /\ all_nodes = get_registered_nodes
    /\ nodeIdx = Len(all_nodes)
    /\ rowsDone = 0
    /\ writes = <<[op |-> "drop_all_data"]>>
                \o [i \in 1..Len(all_nodes) |->
                      insert_row(resolve_name_to_type(all_nodes[i]), NodeRow(all_nodes[i]))]
    /\ lastRow = [row |-> NoRow, calls |-> <<>>, raised |-> "", skipped |-> FALSE,
                  failed |-> <<>>]
    /\ resolved = <<>>
    /\ UnitsIdle

\* the next row of all_relationships, its cell one of these
CreateRelationshipsWildcard ==
    /\ pc = "edges"
    /\ rowsDone < MaxRows
    /\ \E s \in RelationshipSites :
       \E n \in Range(KeyColumn(TYPES_MAP, s.df)) :
       \E c \in WildcardCells :
          MaterializeStep(RelationshipRow(s, n, c), 0)

NextRows ==
    \/ CreateRelationshipsWildcard
    \/ Finish

SpecRows == InitRows /\ [][NextRows]_vars

\* the column names register_nodes is given as metadata_cols in the runs
\* that follow the sanitizing of attribute keys: columns of the call sites
\* (lines 44-93) and, as threats_df passes whatever columns its file has
\* (line 68), columns that differ from them in case or punctuation
SanitizeColumns ==
    {"Name", "name", "Description", "URL", "Url", "Date Published", "Date.Published",
     "CVSS (V3.1)", "Spec. Issue"}

MaxCols == 2

\* the lists of metadata columns: no column twice
SanitizeColumnLists ==
    {cols \in SeqsUpTo(SanitizeColumns, MaxCols) :
        \A i, j \in 1..Len(cols) : cols[i] = cols[j] => i = j}

\* the keys of the table that is registered with these columns
SanitizeTables == { <<"T-O-RAN-01">>, <<"T-O-RAN-01", "T-O-RAN-02">> }

\* the run before its node loop (lines 26-170): one register_nodes call with
\* one of these column lists, the snapshot taken, the graph dropped
InitSanitize ==
    /\ pc = "nodes"
    /\ error = ""
    /\ site = Len(RegisterSites) + 1
    /\ \E t \in SanitizeTables :
       \E cols \in SanitizeColumnLists :
          LET threats_df == [i \in 1..Len(t) |-> [key |-> t[i], value |-> "v1"]]
              st == register_nodes([types |-> <<>>, meta |-> <<>>, raised |-> FALSE],
                                   threats_df, "Threat", cols)
          IN  /\ TYPES_MAP = st.types
              /\ NODE_METADATA = st.meta
              /\ lastReg = [df |-> threats_df, component_type |-> "Threat",
                            types |-> <<>>, meta |-> <<>>]
    /\ \E c \in Configurations :
          /\ EXPANSIONS = c.expansions
          /\ DROP_COMPONENTS = c.drop
    /\ RELATIONSHIPS = <<>>
    /\ all_nodes = get_registered_nodes
    /\ nodeIdx = 0
    /\ rowsDone = 0
    /\ writes = <<[op |-> "drop_all_data"]>>
    /\ lastRow = [row |-> NoRow, calls |-> <<>>, raised |-> "", skipped |-> FALSE,
                  failed |-> <<>>]
    /\ resolved = <<>>
    /\ UnitsIdle

\* the node loop of such a run, and its end
NextSanitize ==
    \/ CreateNode
    \/ Finish

SpecSanitize == InitSanitize /\ [][NextSanitize]_vars

\* the arguments set_node_metadata is tried on: lists of nodes, one with a
\* node twice; tags; values, one of them spelled like a tag
MetadataNodeLists ==
    {<<"O-CU-CP">>, <<"O-CU-CP", "Non-RT RIC">>, <<"Non-RT RIC", "Non-RT RIC">>}

MetadataTags == {"Source", "Extra Interfaces"}

MetadataValues == {"v1", "v2", "Source"}

\* the run variables while a function is followed on its own
RunIdle ==
    /\ error = ""
    /\ site = 1
    /\ TYPES_MAP = <<>>
    /\ EXPANSIONS = <<>>
    /\ DROP_COMPONENTS = {}
    /\ RELATIONSHIPS = <<>>
    /\ all_nodes = <<>>
    /\ nodeIdx = 0
    /\ rowsDone = 0
    /\ writes = <<>>
    /\ lastRow = [row |-> NoRow, calls |-> <<>>, raised |-> "", skipped |-> FALSE,
                  failed |-> <<>>]
    /\ lastReg = NoReg
    /\ resolved = <<>>

\* the Metadata Store on its own: empty, or as register_nodes left it for a
\* threat with its two metadata columns
InitMetadata ==
    /\ pc = "metadata"
    /\ RunIdle
    /\ \E df \in {<<>>, << [key |-> "O-CU-CP", value |-> "v1"] >>} :
          NODE_METADATA = register_nodes([types |-> <<>>, meta |-> <<>>, raised |-> FALSE],
                                         df, RegisterSites[2].component_type,
                                         RegisterSites[2].metadata_cols).meta
    /\ UnitsIdle

\* a call set_node_metadata(nodes, tag, metadata_list)
SetNodeMetadata ==
    /\ pc = "metadata"
    /\ lastSet.n < MaxSets
    /\ \E nodes \in MetadataNodeLists, tag \in MetadataTags,
          metadata_list \in SeqsUpTo(MetadataValues, 2) \ {<<>>} :
          LET st == set_node_metadata(NODE_METADATA, nodes, tag, metadata_list)
          IN  /\ NODE_METADATA' = st.meta
              /\ lastSet' = [n |-> lastSet.n + 1, nodes |-> nodes, tag |-> tag,
                             metadata_list |-> metadata_list, meta |-> NODE_METADATA,
                             raised |-> st.raised]
    /\ UNCHANGED <<pc, error, site, TYPES_MAP, EXPANSIONS, DROP_COMPONENTS, RELATIONSHIPS,
                   all_nodes, nodeIdx, rowsDone, writes, lastRow, lastReg, resolved>>
    /\ UNCHANGED <<lastCall, lastUnion, master, lastRun>>

NextMetadata == SetNodeMetadata

SpecMetadata == InitMetadata /\ [][NextMetadata]_vars

\* the attribute dicts the database.py functions are tried on: rows of a
\* node and relationship metadata, with and without a key that has a hyphen
WriterRows ==
    { << [key |-> "name", value |-> "O-CU-CP"] >>,
      << [key |-> "name", value |-> "O-CU-CP"], [key |-> "source", value |-> "v1"] >>,
      << [key |-> "name", value |-> "O-CU-CP"], [key |-> "threat-id", value |-> "v1"] >>,
      << [key |-> "name", value |-> "O-CU-CP"], [key |-> "source", value |-> "v1"],
         [key |-> "threat-id", value |-> "v1"] >> }

WriterMetadata ==
    { <<>>,
      << [key |-> "all", value |-> FALSE] >>,
      << [key |-> "all", value |-> FALSE], [key |-> "threat-id", value |-> TRUE] >> }

\* the functions of database.py on their own, over an open transaction
InitWriter ==
    /\ pc = "writer"
    /\ RunIdle
    /\ NODE_METADATA = <<>>
    /\ UnitsIdle

\* a call insert_row(tx, component_name, row): raises before tx.run for a key
\* with a hyphen
InsertRow ==
    /\ pc = "writer"
    /\ lastCall.n < MaxCalls
    /\ \E component_name \in {"Component", "Threat"}, row \in WriterRows :
          /\ writes' = IF insert_row_raises(row) THEN writes
                       ELSE Append(writes, insert_row(component_name, row))
          /\ lastCall' = [n |-> lastCall.n + 1, op |-> "insert_row", attrs |-> row,
                          ran |-> ~insert_row_raises(row),
                          raised |-> insert_row_raises(row)]
    /\ UNCHANGED <<pc, error, site, TYPES_MAP, NODE_METADATA, EXPANSIONS, DROP_COMPONENTS,
                   RELATIONSHIPS, all_nodes, nodeIdx, rowsDone, lastRow, lastReg, resolved,
                   lastSet, lastUnion, master, lastRun>>

\* a call create_relationship(tx, ...): builds the query and calls tx.run
\* whatever the keys of metadata are; what the store does with a parameter
\* named with a hyphen is not decided by this code, it may raise or not
CreateRelationship ==
    /\ pc = "writer"
    /\ lastCall.n < MaxCalls
    /\ \E metadata \in WriterMetadata :
       \E rejected \in (IF \E k \in DictKeys(metadata) : HasHyphen(k)
                        THEN BOOLEAN ELSE {FALSE}) :
          /\ writes' = Append(writes, create_relationship("Threat", "Non-RT RIC", "Component",
                                                          "O-CU-CP", "TARGETS", metadata))
          /\ lastCall' = [n |-> lastCall.n + 1, op |-> "create_relationship",
                          attrs |-> metadata, ran |-> TRUE, raised |-> rejected]
    /\ UNCHANGED <<pc, error, site, TYPES_MAP, NODE_METADATA, EXPANSIONS, DROP_COMPONENTS,
                   RELATIONSHIPS, all_nodes, nodeIdx, rowsDone, lastRow, lastReg, resolved,
                   lastSet, lastUnion, master, lastRun>>

NextWriter ==
    \/ InsertRow
    \/ CreateRelationship

SpecWriter == InitWriter /\ [][NextWriter]_vars

\* the column names the headers handed to _union_headers draw from
HeaderColumns == {"A", "B", "C", "__source_file", "__source_doc"}

\* the arguments of the two call sites of _union_headers: existing is the
\* union built so far or the header of the master, without a repeated
\* column; incoming is the stripped field names of a CSV file that has some,
\* or the header _iter_run_rows returned, never empty
ExistingHeaders ==
    {h \in SeqsUpTo(HeaderColumns, MaxHeader) : Cardinality(Range(h)) = Len(h)}

IncomingHeaders == SeqsUpTo(HeaderColumns, MaxHeader) \ {<<>>}

\* _union_headers on its own: the arguments, before the call
InitHeaders ==
    /\ pc = "headers"
    /\ RunIdle
    /\ NODE_METADATA = <<>>
    /\ lastSet = NoSet
    /\ lastCall = NoCall
    /\ master = NoFile
    /\ lastRun = NoRun
    /\ \E existing \in ExistingHeaders, incoming \in IncomingHeaders :
          lastUnion = [existing |-> existing, incoming |-> incoming, called |-> FALSE,
                       out |-> <<>>]

\* the call _union_headers(existing, incoming)
UnionHeaders ==
    /\ pc = "headers"
    /\ ~lastUnion.called
    /\ lastUnion' = [lastUnion EXCEPT
                        !.called = TRUE,
                        !.out = _union_headers(lastUnion.existing, lastUnion.incoming)]
    /\ UNCHANGED <<pc, error, site, TYPES_MAP, NODE_METADATA, EXPANSIONS, DROP_COMPONENTS,
                   RELATIONSHIPS, all_nodes, nodeIdx, rowsDone, writes, lastRow, lastReg,
                   resolved, lastSet, lastCall, master, lastRun>>

NextHeaders == UnionHeaders

SpecHeaders == InitHeaders /\ [][NextHeaders]_vars

\* the CSV files of a run directory, each the field names and the rows
\* csv.DictReader reads with the comma, and whether the bytes decode as
\* UTF-8: one column, with a row that differs from another by a blank only,
\* with a row longer than the header; two columns, with a short row and with
\* a row twice; a provenance column before the name; a padded field name; an
\* empty file; a file with a byte that is no UTF-8
RunFiles ==
    [ n1 |-> [header |-> <<"Name">>, rows |-> << <<"x">> >>, decodes |-> TRUE],
      n2 |-> [header |-> <<"Name">>, rows |-> << <<"x">>, <<" x">> >>, decodes |-> TRUE],
      n3 |-> [header |-> <<"Name">>, rows |-> << <<"y">>, <<"x">> >>, decodes |-> TRUE],
      n4 |-> [header |-> <<"Name">>, rows |-> << <<"y">>, <<"x", "t">>, <<"x">> >>,
              decodes |-> TRUE],
      t1 |-> [header |-> <<"Name", "Type">>, rows |-> << <<"x", "t">> >>, decodes |-> TRUE],
      t2 |-> [header |-> <<"Name", "Type">>, rows |-> << <<"x">> >>, decodes |-> TRUE],
      t3 |-> [header |-> <<"Name", "Type">>, rows |-> << <<"x", "t">>, <<"x", "t">> >>,
              decodes |-> TRUE],
      p1 |-> [header |-> <<"__source_file", "Name">>, rows |-> << <<"f", "x">> >>,
              decodes |-> TRUE],
      w1 |-> [header |-> <<" Name">>, rows |-> << <<"x">> >>, decodes |-> TRUE],
      e0 |-> [header |-> <<>>, rows |-> <<>>, decodes |-> TRUE],
      u0 |-> [header |-> <<"Name", "Type">>, rows |-> << <<"z", "t">> >>, decodes |-> FALSE] ]

\* the run directories: the files in the order Path.rglob yields them
RunDirs ==
    {<<>>} \cup {<<RunFiles[f]>> : f \in DOMAIN RunFiles}
    \cup {<<RunFiles.n1, RunFiles.t1>>, <<RunFiles.t1, RunFiles.p1>>,
          <<RunFiles.e0, RunFiles.n3>>, <<RunFiles.u0, RunFiles.n3>>}

Methods == {"append", "rebuild", "dry-run", "update"}

\* the master CSV before the first run: none, or a file put there by hand,
\* with the provenance column first and two rows that differ by a blank
InitMasters ==
    { NoFile,
      [exists |-> TRUE, header |-> <<"__source_file", "Name">>,
       rows |-> << <<"f", "x">>, <<"f", " x">> >>] }

\* oran_pipeline.py on its own
InitPipeline ==
    /\ pc = "pipeline"
    /\ RunIdle
    /\ NODE_METADATA = <<>>
    /\ lastSet = NoSet
    /\ lastCall = NoCall
    /\ lastUnion = NoUnion
    /\ master \in InitMasters
    /\ lastRun = NoRun

\* a call run_full_pipeline(run_dir, method)
RunFullPipeline ==
    /\ pc = "pipeline"
    /\ lastRun.n < MaxRuns
    /\ \E run_dir \in RunDirs, method \in Methods :
       \E drop_ok \in (IF method = "rebuild" THEN BOOLEAN ELSE {TRUE}) :
       \E import_ok \in (IF method \in {"append", "rebuild"} /\ drop_ok THEN BOOLEAN
                         ELSE {TRUE}) :
       \E out \in {run_full_pipeline(master, run_dir, method, drop_ok, import_ok)} :
              /\ master' = out.master
              /\ lastRun' = [n |-> lastRun.n + 1, method |-> method, run_dir |-> run_dir,
                             before |-> master, headers |-> out.headers,
                             new_rows |-> out.new_rows, subprocesses |-> out.subprocesses,
                             outcome |-> out.outcome, appended |-> out.appended,
                             added |-> out.added, total |-> out.total,
                             files |-> out.files, rows |-> out.rows]
    /\ UNCHANGED <<pc, error, site, TYPES_MAP, NODE_METADATA, EXPANSIONS, DROP_COMPONENTS,
                   RELATIONSHIPS, all_nodes, nodeIdx, rowsDone, writes, lastRow, lastReg,
                   resolved, lastSet, lastCall, lastUnion>>

NextPipeline == RunFullPipeline

SpecPipeline == InitPipeline /\ [][NextPipeline]_vars

Next ==
    \/ DropAllData
    \/ RegisterNodes
    \/ GetRegisteredNodes
    \/ CreateNode
    \/ CreateRelationships
    \/ Finish

Spec == Init /\ [][Next]_vars

----------------------------------------------------------------------------
(* Properties *)

\* the names a register_nodes call was handed before row i of its table
KeysBefore(reg, i) == DictKeys(reg.types) \cup {reg.df[j].key : j \in 1..(i - 1)}

\* the last register_nodes call was handed a name that was registered
\* already, by an earlier call or by an earlier row of the same table
DuplicateHanded ==
    \E i \in 1..Len(lastReg.df) : lastReg.df[i].key \in KeysBefore(lastReg, i)

\* C1: a register_nodes call that is handed a name already in the Type
\* Registry (registered under the same type or another, with metadata or
\* without) raises, and every name registered before the call keeps the type
\* and the metadata it had.
C1_DuplicateRaises ==
    /\ DuplicateHanded => (pc = "error" /\ error = "ValueError")
    /\ \A n \in DictKeys(lastReg.types) :
          /\ DictGet(TYPES_MAP, n, None) = DictGet(lastReg.types, n, None)
          /\ DictGet(NODE_METADATA, n, <<>>) = DictGet(lastReg.meta, n, <<>>)

\* a call for the threats raised on a name registered as a component, the
\* row carrying metadata
C1_Witness ==
    /\ pc = "error"
    /\ lastReg.component_type = "Threat"
    /\ \E i \in 1..Len(lastReg.df) :
          /\ lastReg.df[i].key \in DictKeys(lastReg.types)
          /\ DictGet(lastReg.types, lastReg.df[i].key, None) = "Component"

\* the names a lookup may be asked for
LookupNames == Names \cup {"O-CU-UP", "O-CU", "All", "all", "ALL"}

\* C2: resolve_name_to_type(n) raises exactly when n is unregistered, returns
\* for a name the last register_nodes call added the type of that call, and
\* once it returns a type for n it returns that type in every later state of
\* the run.
C2_TypeStable ==
    /\ [](\A n \in LookupNames :
            /\ (resolve_name_to_type(n) = Raise) <=> (n \notin DictKeys(TYPES_MAP))
            /\ (n \in DictKeys(TYPES_MAP) \ DictKeys(lastReg.types))
                  => resolve_name_to_type(n) = lastReg.component_type)
    /\ [][\A n \in LookupNames :
            resolve_name_to_type(n) # Raise
               => resolve_type_in(TYPES_MAP', n) = resolve_name_to_type(n)]_vars

\* names of two types are registered and a relationship row looked both up
C2_Witness ==
    /\ rowsDone = 1
    /\ lastRow.calls # <<>>
    /\ \E a, b \in DictKeys(TYPES_MAP) : resolve_name_to_type(a) # resolve_name_to_type(b)

\* the edge writes among the database calls
IsEdge(w) == w.op = "create_relationship"
IsNode(w) == w.op = "insert_row"

\* the tokens the loop over the destinations of the last row walks: the
\* expansion base for a wildcard cell, the tokens of the cell otherwise,
\* each replaced by its expansion
WalkedTokens ==
    LET r == lastRow.row
        wildcard == r.cell.tokens \in {<<"all">>, <<"All">>, <<"ALL">>}
        base == IF wildcard THEN r.expansion ELSE r.cell.tokens
    IN  IF r.cell.isna \/ base = <<None>> THEN <<>> ELSE ExpandAll(base)

\* token t is not on the Drop List and resolves to an unregistered name
Unregistered(t) ==
    /\ t \notin DROP_COMPONENTS
    /\ resolve_name_map(t) \notin DictKeys(TYPES_MAP)

\* C3: every edge handed to the database has registered endpoints and
\* carries their registered types as labels; a row with a destination token
\* that is not on the Drop List and resolves to an unregistered name ends the
\* run with an error.
C3_EndpointsRegistered ==
    /\ \A i \in 1..Len(writes) :
          IsEdge(writes[i]) =>
             /\ writes[i].src \in DictKeys(TYPES_MAP)
             /\ writes[i].dst \in DictKeys(TYPES_MAP)
             /\ writes[i].src_type = DictGet(TYPES_MAP, writes[i].src, None)
             /\ writes[i].dst_type = DictGet(TYPES_MAP, writes[i].dst, None)
    /\ (rowsDone > 0 /\ \E i \in 1..Len(WalkedTokens) : Unregistered(WalkedTokens[i]))
          => (pc = "error" /\ lastRow.raised # "")

\* a row of a registered threat ended the run on an unregistered destination
C3_Witness ==
    /\ pc = "error"
    /\ rowsDone = 1
    /\ resolve_name_map(lastRow.row.node) \in DictKeys(TYPES_MAP)
    /\ \E i \in 1..Len(WalkedTokens) : Unregistered(WalkedTokens[i])

\* C4: the node writes all precede the edge writes: when an edge is written,
\* every register_nodes call has returned and every registered name has been
\* written as a node, the endpoints of the edge among them, and no node is
\* written after an edge.
C4_NodesBeforeEdges ==
    \A j \in 1..Len(writes) :
       IsEdge(writes[j]) =>
          /\ site > Len(RegisterSites)
          /\ \A n \in DictKeys(TYPES_MAP) :
                \E i \in 1..(j - 1) :
                   IsNode(writes[i]) /\ DictGet(writes[i].row, "name", None) = n
          /\ \A e \in {writes[j].src, writes[j].dst} :
                \E i \in 1..(j - 1) :
                   IsNode(writes[i]) /\ DictGet(writes[i].row, "name", None) = e
          /\ \A i \in (j + 1)..Len(writes) : ~IsNode(writes[i])

\* two nodes were written and then an edge
C4_Witness ==
    /\ \E j \in 1..Len(writes) : IsEdge(writes[j])
    /\ Cardinality({i \in 1..Len(writes) : IsNode(writes[i])}) >= 2

\* the last row got past the lookup of its source and the null check and
\* walked its destinations
RowWalked ==
    /\ rowsDone > 0
    /\ ~lastRow.row.cell.isna
    /\ resolve_name_map(lastRow.row.node) \in DictKeys(TYPES_MAP)
    /\ lastRow.raised # "TypeError"

\* the index of the first walked token that is not on the Drop List and
\* resolves to an unregistered name, one past the end when there is none
FirstUnregistered ==
    LET bad == {i \in 1..Len(WalkedTokens) : Unregistered(WalkedTokens[i])}
    IN  IF bad = {} THEN Len(WalkedTokens) + 1
        ELSE CHOOSE i \in bad : \A j \in bad : i <= j

\* the resolved names of the walked tokens before index k that are not on
\* the Drop List
TargetsBefore(k) ==
    {resolve_name_map(WalkedTokens[i]) :
        i \in {j \in 1..(k - 1) : WalkedTokens[j] \notin DROP_COMPONENTS}}

\* the destinations of the edges the last row wrote
RowDestinations == {lastRow.calls[i].dst : i \in 1..Len(lastRow.calls)}

\* C5 as claimed: a row that ends the run with an error has written no edge.
C5_AllOrNothing == lastRow.raised # "" => lastRow.calls = <<>>

\* C5, amended: expansion is fail-fast per token, not all-or-nothing per row:
\* a row that raises on an unregistered destination has written one edge to
\* each resolved name of the tokens before that destination, these stay
\* written, and it has written no edge for that destination or a later token.
C5_FailFast ==
    (RowWalked /\ lastRow.raised = "ValueError") =>
       /\ FirstUnregistered <= Len(WalkedTokens)
       /\ RowDestinations = TargetsBefore(FirstUnregistered)
       /\ Len(lastRow.calls) = Cardinality(TargetsBefore(FirstUnregistered))
       /\ \A i \in 1..Len(lastRow.calls) :
             \E j \in 1..Len(writes) : writes[j] = lastRow.calls[i]

\* a row wrote an edge and then raised on a later token
C5_Witness ==
    /\ RowWalked
    /\ lastRow.raised = "ValueError"
    /\ lastRow.calls # <<>>
    /\ FirstUnregistered < Len(WalkedTokens)

\* the entities a wildcard row stands for: the expansion base after
\* Expansion-Table expansion, Drop-List filtering and name resolution
WildcardTargets ==
    {resolve_name_map(t) :
        t \in (UNION {Range(get_expansions(b)) : b \in Range(lastRow.row.expansion)})
              \ DROP_COMPONENTS}

\* the last row is the single token "all" in some letter case, at a call
\* site with a non-empty expansion base, and its source is registered
WildcardRow ==
    /\ rowsDone > 0
    /\ ~lastRow.row.cell.isna
    /\ lastRow.row.cell.tokens \in {<<"all">>, <<"All">>, <<"ALL">>}
    /\ lastRow.row.expansion \notin {<<None>>, <<>>}
    /\ resolve_name_map(lastRow.row.node) \in DictKeys(TYPES_MAP)

\* C6: a row whose cell is the single token "all" in any letter case, at a
\* call site with a non-empty expansion base, writes edges only to entities of
\* the expansion base after expansion, Drop-List filtering and resolution,
\* at most one per entity, each with all = TRUE; when those entities are all
\* registered the row completes and writes exactly one edge to each.
C6_Wildcard ==
    WildcardRow =>
       /\ \A i \in 1..Len(lastRow.calls) :
             /\ lastRow.calls[i].dst \in WildcardTargets
             /\ DictGet(lastRow.calls[i].metadata, "all", FALSE) = TRUE
             /\ \A j \in 1..Len(lastRow.calls) :
                   lastRow.calls[i].dst = lastRow.calls[j].dst => i = j
       /\ WildcardTargets \subseteq DictKeys(TYPES_MAP) =>
             /\ lastRow.raised = ""
             /\ RowDestinations = WildcardTargets

\* a row "All" over two components that resolve to one entity wrote one edge
C6_Witness ==
    /\ WildcardRow
    /\ lastRow.row.cell.tokens = <<"All">>
    /\ Len(lastRow.row.expansion) = 2
    /\ lastRow.raised = ""
    /\ Len(lastRow.calls) = 1
    /\ DROP_COMPONENTS = {}

\* C7: deduplication follows name resolution: a row writes at most one edge
\* to an entity, and a row that completes writes exactly one edge to every
\* entity that one or more of its tokens off the Drop List resolve to.
C7_DedupAfterResolution ==
    RowWalked =>
       /\ \A i, j \in 1..Len(lastRow.calls) :
             lastRow.calls[i].dst = lastRow.calls[j].dst => i = j
       /\ lastRow.raised = "" =>
             \A d \in TargetsBefore(Len(WalkedTokens) + 1) :
                Cardinality({i \in 1..Len(lastRow.calls) : lastRow.calls[i].dst = d}) = 1

\* the row "Non-RT-RIC, Non-RT RIC" with nothing on the Drop List completed
\* with one edge
C7_Witness ==
    /\ RowWalked
    /\ lastRow.row.cell.tokens = <<"Non-RT-RIC", "Non-RT RIC">>
    /\ DROP_COMPONENTS = {}
    /\ lastRow.raised = ""
    /\ Len(lastRow.calls) = 1
    /\ lastRow.calls[1].dst = "Non-RT RIC"

\* C8 as claimed: a row with a null destination cell writes no edge and
\* raises no error, whatever its source name is.
C8_NullSkipped ==
    (rowsDone > 0 /\ lastRow.row.cell.isna) =>
       (lastRow.calls = <<>> /\ lastRow.raised = "" /\ pc # "error")

\* C9 as claimed: every name in the Type Registry is canonical.
C9_RegistryCanonical ==
    \A n \in DictKeys(TYPES_MAP) : resolve_name_map(n) = n

\* C10: resolve_name_map is idempotent over the shipped alias table: a
\* second call returns what the first returned; the first call returns the
\* value of a key and returns any other string unchanged; and what it returns
\* is never a key.
C10_Idempotent ==
    /\ \A i \in 2..(Len(resolved) - 1) : resolved[i + 1] = resolved[i]
    /\ Len(resolved) >= 2 =>
          /\ resolved[2] \notin DOMAIN NAMES_MAP
          /\ resolved[1] \in DOMAIN NAMES_MAP => resolved[2] = NAMES_MAP[resolved[1]]
          /\ resolved[1] \notin DOMAIN NAMES_MAP => resolved[2] = resolved[1]

\* the key "Non-RT-RIC" was resolved twice
C10_Witness ==
    /\ Len(resolved) = 3
    /\ resolved[1] = "Non-RT-RIC"
    /\ resolved[3] = "Non-RT RIC"

\* the node writes among the database calls, in order
NodeWrites == SelectSeq(writes, IsNode)

\* the name a node write carries
NodeName(w) == DictGet(w.row, "name", None)

\* a register_nodes call ended the run
RegistrationFailed == pc = "error" /\ DuplicateHanded

\* C11 as claimed: a name is handed to the database in the step that
\* registers it, so whenever a name is in the Type Registry its node has been
\* written, also when a later registration fails.
C11_EmittedOnRegister ==
    \A n \in DictKeys(TYPES_MAP) :
       \E i \in 1..Len(writes) : IsNode(writes[i]) /\ NodeName(writes[i]) = n

\* C11, amended: registration only records a name in memory; the nodes are
\* written later, by the node loop over the snapshot of the registry, in
\* registry order, after every register_nodes call has returned. While the
\* registrations run no node has been written, and when a registration fails
\* the run ends with no node written, the names registered before it
\* included.
C11_EmittedByNodeLoop ==
    /\ Len(NodeWrites) = nodeIdx
    /\ \A i \in 1..Len(NodeWrites) : NodeName(NodeWrites[i]) = all_nodes[i]
    /\ (pc \in {"start", "register"} \/ RegistrationFailed) => NodeWrites = <<>>
    /\ NodeWrites # <<>> => site > Len(RegisterSites)

\* a registration failed after names had been registered, none was written
C11_Witness ==
    /\ RegistrationFailed
    /\ TYPES_MAP # <<>>
    /\ NodeWrites = <<>>

\* the node loop has run to its end
NodePhaseDone == pc \in {"edges", "done"} \/ (pc = "error" /\ rowsDone > 0)

\* C12: when the node loop has run to its end, the node writes and the Type
\* Registry match one to one: every registered name was written exactly once,
\* every name written is registered, and each was written under the label
\* that is its registered type.
C12_NodesMatchRegistry ==
    NodePhaseDone =>
       /\ Len(NodeWrites) = Len(TYPES_MAP)
       /\ \A n \in DictKeys(TYPES_MAP) :
             Cardinality({i \in 1..Len(NodeWrites) : NodeName(NodeWrites[i]) = n}) = 1
       /\ \A i \in 1..Len(NodeWrites) :
             /\ NodeName(NodeWrites[i]) \in DictKeys(TYPES_MAP)
             /\ NodeWrites[i].type = DictGet(TYPES_MAP, NodeName(NodeWrites[i]), None)

\* the node loop ended over a registry of components and threats, one of
\* them without metadata
C12_Witness ==
    /\ pc = "edges"
    /\ rowsDone = 0
    /\ Len(NodeWrites) >= 2
    /\ \E i, j \in 1..Len(NodeWrites) : NodeWrites[i].type # NodeWrites[j].type
    /\ \E i \in 1..Len(NodeWrites) : Len(NodeWrites[i].row) = 1

\* C14 as claimed: no name on the Drop List is an endpoint of an edge handed
\* to the database, also not a name that a token reaches through the alias
\* table.
C14_NoDroppedEndpoint ==
    \A i \in 1..Len(writes) :
       IsEdge(writes[i]) =>
          /\ writes[i].src \notin DROP_COMPONENTS
          /\ writes[i].dst \notin DROP_COMPONENTS

\* the schema entry of an edge write: its relationship and destination type
\* under its source type
Recorded(rels, w) == [rel |-> w.rel, dst |-> w.dst_type] \in DictGet(rels, w.src_type, {})

\* C15: for every edge handed to the database, the schema dict holds the
\* edge's relationship and destination type under its source type; the entry
\* is made before the write, so it is there also for the write that the
\* database failed; and an entry of the schema dict is never removed.
C15_RecordedBeforeWrite ==
    /\ [](/\ \A i \in 1..Len(writes) : IsEdge(writes[i]) => Recorded(RELATIONSHIPS, writes[i])
          /\ \A i \in 1..Len(lastRow.failed) : Recorded(RELATIONSHIPS, lastRow.failed[i]))
    /\ [][\A k \in DictKeys(RELATIONSHIPS) :
            DictGet(RELATIONSHIPS, k, {}) \subseteq DictGet(RELATIONSHIPS', k, {})]_vars

\* the database failed the second edge write of a row
C15_Witness ==
    /\ pc = "error"
    /\ error = "Neo4jError"
    /\ Len(lastRow.calls) = 1
    /\ Len(lastRow.failed) = 1
    /\ lastRow.failed[1].dst_type # lastRow.calls[1].dst_type

\* the entry node has under key tag in the metadata dict meta, None if none
MetadataEntry(meta, node, tag) == DictGet(DictGet(meta, node, <<>>), tag, None)

\* C13 as claimed: a set_node_metadata call with a node that has an entry
\* under the tag already raises, whatever the old and the new value are, and
\* the entry keeps its value.
C13_SetOnce ==
    \A i \in 1..Len(lastSet.nodes) :
       (/\ Len(lastSet.nodes) = Len(lastSet.metadata_list)
        /\ MetadataEntry(lastSet.meta, lastSet.nodes[i], lastSet.tag) # None)
       => /\ lastSet.raised
          /\ MetadataEntry(NODE_METADATA, lastSet.nodes[i], lastSet.tag)
                = MetadataEntry(lastSet.meta, lastSet.nodes[i], lastSet.tag)

\* C16 as claimed: insert_row and create_relationship both raise on an
\* attribute dict that has a key with a hyphen, before anything is handed to
\* the store.
C16_HyphenRejected ==
    (\E k \in DictKeys(lastCall.attrs) : HasHyphen(k))
       => (lastCall.raised /\ ~lastCall.ran)

\* the k-th smallest element of a set of numbers
KthOf(S, k) == CHOOSE i \in S : Cardinality({j \in S : j < i}) = k - 1

\* the elements of s at the positions in S, in order
Pick(s, S) == [k \in 1..Cardinality(S) |-> s[KthOf(S, k)]]

\* the positions of incoming that hold a column existing does not have, for
\* the first time
FirstSeenNew(existing, incoming) ==
    {i \in 1..Len(incoming) :
        /\ incoming[i] \notin Range(existing)
        /\ \A j \in 1..(i - 1) : incoming[j] # incoming[i]}

ProvenanceColumns == <<"__source_file", "__source_doc">>

\* C18: _union_headers(existing, incoming) returns the columns of existing in
\* their order, then the columns of incoming that existing does not have, in
\* the order they are first seen, except that the provenance columns
\* __source_file and __source_doc, when present, are taken out and put at the
\* end in that order; [A, B] into [B, C] gives [B, C, A].
C18_UnionHeaders ==
    lastUnion.called =>
       LET existing == lastUnion.existing
           incoming == lastUnion.incoming
           merged == existing \o Pick(incoming, FirstSeenNew(existing, incoming))
           plain == {i \in 1..Len(merged) : merged[i] \notin Range(ProvenanceColumns)}
           prov == {i \in 1..2 : ProvenanceColumns[i] \in Range(merged)}
       IN  /\ lastUnion.out = Pick(merged, plain) \o Pick(ProvenanceColumns, prov)
           /\ (existing = <<"B", "C">> /\ incoming = <<"A", "B">>)
                 => lastUnion.out = <<"B", "C", "A">>

\* the call on a master header that starts with the two provenance columns,
\* in the other order, and a file that brings a new column
C18_Witness ==
    /\ lastUnion.called
    /\ lastUnion.existing = <<"__source_doc", "__source_file">>
    /\ lastUnion.incoming = <<"A", "__source_file">>
    /\ lastUnion.out = <<"A", "__source_file", "__source_doc">>

----------------------------------------------------------------------------
(* The merge pipeline *)

\* the run called _append_to_master: it returned, or csv.DictWriter raised
Merged(r) ==
    r.n > 0 /\ (r.appended \/ (r.method \in {"append", "rebuild"} /\ r.outcome = "ValueError"))

\* C17: a second run of _append_to_master right after a first one, with the
\* same headers and the same new rows, leaves the master file as the first
\* run left it (the same data rows, so the same count), and a second run
\* that returns reports zero added rows and the total of the first.
C17_Idempotent ==
    [][(/\ Merged(lastRun)
        /\ lastRun'.n = lastRun.n + 1
        /\ Merged(lastRun')
        /\ lastRun'.headers = lastRun.headers
        /\ lastRun'.new_rows = lastRun.new_rows)
       => (/\ master' = master
           /\ lastRun'.appended
                 => (/\ lastRun'.added = 0
                     /\ lastRun'.total = Len(master.rows)
                     /\ lastRun.appended => lastRun'.total = lastRun.total))]_vars

\* a second run that found the master as a first run with the same headers
\* and rows left it, the first having added rows, and that added none
C17_Witness ==
    /\ lastRun.n = 2
    /\ lastRun.appended
    /\ lastRun.new_rows # <<>>
    /\ lastRun.added = 0
    /\ master = lastRun.before
    /\ \E m0 \in InitMasters :
          \E a \in {_append_to_master(m0, lastRun.headers, lastRun.new_rows)} :
              ~a.raised /\ a.added > 0 /\ a.master = lastRun.before

\* the header _append_to_master writes in the last run
MergedHeader ==
    IF lastRun.before.exists
    THEN _union_headers(lastRun.before.header, lastRun.headers)
    ELSE lastRun.headers

\* the rows the master held before the last run
ExistingRows == IF lastRun.before.exists THEN DictReader(lastRun.before) ELSE <<>>

\* the tuple of trimmed values of a row over the unioned header
TrimmedTuple(row) ==
    [k \in 1..Len(MergedHeader) |-> strip(DictGet(row, MergedHeader[k], ""))]

\* the values of a row under the unioned header, as they stand in the file
FileRow(row) == [k \in 1..Len(MergedHeader) |-> DictGet(row, MergedHeader[k], "")]

\* the new rows to accept: those whose tuple is neither that of an existing
\* row nor that of a row accepted earlier in the batch
AcceptedRows ==
    LET n == Len(lastRun.new_rows)
        key(i) == TrimmedTuple(lastRun.new_rows[i])
        old == {TrimmedTuple(ExistingRows[i]) : i \in 1..Len(ExistingRows)}
    IN  CHOOSE A \in SUBSET (1..n) :
            \A i \in 1..n :
                i \in A <=> (key(i) \notin old /\ \A j \in A : j < i => key(j) # key(i))

C20_DryRunFrame ==
    [][(lastRun'.n = lastRun.n + 1 /\ lastRun'.method = "dry-run")
       => (/\ master' = master
           /\ lastRun'.subprocesses = <<>>)]_vars

\* a dry run over a run directory with rows, with no master file before or after
C20_Witness ==
    /\ lastRun.n > 0
    /\ lastRun.method = "dry-run"
    /\ lastRun.rows > 0
    /\ lastRun.new_rows # <<>>
    /\ ~lastRun.before.exists
    /\ ~master.exists
    /\ lastRun.subprocesses = <<>>

\* the file a complete rewrite of the last run leaves: the unioned header,
\* the existing rows, the accepted rows
CompleteMerge ==
    [exists |-> TRUE,
     header |-> MergedHeader,
     rows |-> [i \in 1..Len(ExistingRows) |-> FileRow(ExistingRows[i])]
              \o [k \in 1..Cardinality(AcceptedRows) |->
                     FileRow(lastRun.new_rows[KthOf(AcceptedRows, k)])]]

\* C21 as claimed: after a run the master file holds its complete previous
\* contents or the complete merged contents, also when an error was raised
\* while the rows were written.
C21_AtomicRewrite ==
    lastRun.n > 0 => (master = lastRun.before \/ master = CompleteMerge)

\* the files of a run directory that decode, and how many do not
Readable(run_dir) == SelectSeq(run_dir, LAMBDA p : p.decodes)

SkippedFiles(run_dir) == Len(run_dir) - Len(Readable(run_dir))

\* what the string run_full_pipeline returns tells of a run: the numbers of
\* added and total rows, or of rows and files for a dry run
Summary(r) == [added |-> r.added, total |-> r.total, files |-> r.files, rows |-> r.rows]

\* the last run read a directory with a file that does not decode
SkippingRun ==
    /\ lastRun.n > 0
    /\ lastRun.method \in {"append", "rebuild", "dry-run"}
    /\ SkippedFiles(lastRun.run_dir) > 0

\* the last run, made on the files that decode only
RunOnReadable ==
    run_full_pipeline(lastRun.before, Readable(lastRun.run_dir), lastRun.method,
                      lastRun.outcome # "CalledProcessError" \/ lastRun.appended,
                      lastRun.outcome # "CalledProcessError")

\* C22 as claimed: a file that parses under neither delimiter is skipped, the
\* other files are merged, and the number of skipped files is reported: the
\* summary of the run differs from that of the run without the skipped files.
C22_SkippedCounted ==
    SkippingRun =>
       /\ lastRun.headers = _iter_run_rows(Readable(lastRun.run_dir)).headers
       /\ lastRun.new_rows = _iter_run_rows(Readable(lastRun.run_dir)).rows
       /\ Summary(lastRun) # Summary(RunOnReadable)

\* C22, amended: a file that parses under neither delimiter is skipped
\* without aborting the merge: it adds no rows and no columns and the other
\* files are merged as without it. The skip is silent: an append or rebuild
\* run ends as it would without the file, master and summary included, and a
\* dry run counts the file among the CSV files and none of its rows.
C22_SkippedSilently ==
    SkippingRun =>
       \E out \in {RunOnReadable} :
          /\ lastRun.headers = out.headers
          /\ lastRun.new_rows = out.new_rows
          /\ lastRun.outcome = out.outcome
          /\ lastRun.subprocesses = out.subprocesses
          /\ master = out.master
          /\ lastRun.added = out.added
          /\ lastRun.total = out.total
          /\ lastRun.rows = out.rows
          /\ lastRun.method = "dry-run" =>
                lastRun.files = out.files + SkippedFiles(lastRun.run_dir)
          /\ lastRun.method # "dry-run" => Summary(lastRun) = Summary(out)

\* a run merged the rows of a file after skipping a file that does not decode
C22_Witness ==
    /\ SkippingRun
    /\ lastRun.method = "append"
    /\ lastRun.appended
    /\ Len(lastRun.run_dir) = 2
    /\ lastRun.added = 2
    /\ Len(master.rows) = 2

\* the last run started the graph import
ImportStarted == "import_data.py" \in Range(lastRun.subprocesses)

\* the last run was a rebuild whose drop script failed
DropFailed ==
    /\ lastRun.method = "rebuild"
    /\ lastRun.subprocesses = <<"drop_database.py">>
    /\ lastRun.outcome = "CalledProcessError"

\* C28: in append and rebuild mode the master is rewritten before the graph
\* import starts and is not rolled back: whenever the import was started,
\* also when it failed, the master holds the merged contents with the newly
\* accepted rows. In rebuild mode the drop script runs first, before the
\* rewrite and the import, and when it fails the master is as it was and the
\* import is not started.
C28_MasterBeforeImport ==
    (lastRun.n > 0 /\ lastRun.method \in {"append", "rebuild"}) =>
       /\ ImportStarted =>
             /\ lastRun.appended
             /\ master = CompleteMerge
             /\ Len(master.rows) = Len(ExistingRows) + lastRun.added
       /\ lastRun.method = "rebuild" =>
             /\ lastRun.subprocesses # <<>>
             /\ lastRun.subprocesses[1] = "drop_database.py"
             /\ \A i \in 2..Len(lastRun.subprocesses) :
                   lastRun.subprocesses[i] = "import_data.py"
       /\ lastRun.method = "append" =>
             \A i \in 1..Len(lastRun.subprocesses) : lastRun.subprocesses[i] = "import_data.py"
       /\ DropFailed => (master = lastRun.before /\ ~ImportStarted)

\* a rebuild whose import failed after the drop: the master keeps the rows
\* the run added to it
C28_Witness ==
    /\ lastRun.n > 0
    /\ lastRun.method = "rebuild"
    /\ lastRun.subprocesses = <<"drop_database.py", "import_data.py">>
    /\ lastRun.outcome = "CalledProcessError"
    /\ lastRun.added > 0
    /\ lastRun.before.exists
    /\ Len(master.rows) > Len(lastRun.before.rows)

\* the graphs an import may find in the database: none, and what an earlier
\* import left, two components and a threat that targets both
PreviousGraphs ==
    { EmptyGraph,
      GraphAfter(EmptyGraph,
         << insert_row("Component", << [key |-> "name", value |-> "O-CU-CP"] >>),
            insert_row("Component", << [key |-> "name", value |-> "Non-RT RIC"] >>),
            insert_row("Threat", << [key |-> "name", value |-> "Non-RT-RIC"],
                                    [key |-> "affected_components", value |-> "v2"] >>),
            create_relationship("Threat", "Non-RT-RIC", "Component", "O-CU-CP", "TARGETS",
                                << [key |-> "all", value |-> FALSE] >>),
            create_relationship("Threat", "Non-RT-RIC", "Component", "Non-RT RIC", "TARGETS",
                                << [key |-> "all", value |-> FALSE] >>) >>) }

\* C29: a run of the import (DRY_RUN false) calls drop_all_data first, before
\* a name is registered and before a node or an edge is written, and only
\* then; so whatever graph the run finds, the graph it leaves is the one it
\* builds on an empty graph: no node or edge of an earlier import is in it.
C29_DropFirst ==
    /\ (pc # "start" \/ TYPES_MAP # <<>>) =>
          (writes # <<>> /\ writes[1].op = "drop_all_data")
    /\ \A i \in 2..Len(writes) : writes[i].op # "drop_all_data"
    /\ pc # "start" =>
          \A g \in PreviousGraphs : GraphAfter(g, writes) = GraphAfter(EmptyGraph, writes)

\* an import that wrote three nodes and an edge on top of what an earlier
\* import had left: the graph holds these three nodes and this edge only
C29_Witness ==
    /\ pc \in {"edges", "done"}
    /\ Len(NodeWrites) = 3
    /\ Len(lastRow.calls) = 1
    /\ \E g \in PreviousGraphs :
          /\ g.nodes # <<>>
          /\ Len(GraphAfter(g, writes).nodes) = 3
          /\ Len(GraphAfter(g, writes).edges) = 1

\* the tokens of a row with each umbrella token replaced, where it stands,
\* by its concrete names
RECURSIVE ExpansionInPlace(_)
ExpansionInPlace(tokens) ==
    IF tokens = <<>>
    THEN <<>>
    ELSE LET last == tokens[Len(tokens)]
         IN  ExpansionInPlace(SubSeq(tokens, 1, Len(tokens) - 1))
             \o (IF DictHas(EXPANSIONS, last) THEN DictGet(EXPANSIONS, last, <<>>)
                 ELSE <<last>>)

\* the elements of a sequence at their first occurrence, in order
FirstOccurrences(s) == Pick(s, {i \in 1..Len(s) : \A j \in 1..(i - 1) : s[j] # s[i]})

\* the canonical destinations the last row names, in token order: the tokens
\* (the expansion base for the wildcard) expanded in place, those on the Drop
\* List left out, each resolved, up to the first unregistered one
NamedDestinations ==
    LET r == lastRow.row
        base == IF r.cell.tokens \in {<<"all">>, <<"All">>, <<"ALL">>} THEN r.expansion
                ELSE r.cell.tokens
        kept == SelectSeq(ExpansionInPlace(base), LAMBDA t : t \notin DROP_COMPONENTS)
        names == [i \in 1..Len(kept) |-> resolve_name_map(kept[i])]
        bad == {i \in 1..Len(names) : names[i] \notin DictKeys(TYPES_MAP)}
        stop == IF bad = {} THEN Len(names) + 1 ELSE CHOOSE i \in bad : \A j \in bad : i <= j
    IN  SubSeq(names, 1, stop - 1)

\* C24: the edges of a row are written in the order of its tokens after
\* Expansion-Table expansion in place, and a canonical destination gets its
\* edge at the position of the first token that resolves to it, later tokens
\* that resolve to it writing nothing.
C24_TokenOrder ==
    RowWalked =>
       [i \in 1..Len(lastRow.calls) |-> lastRow.calls[i].dst]
          = FirstOccurrences(NamedDestinations)

\* a row whose first and third token resolve to one entity wrote its edge
\* first, before the edge of the second token
C24_Witness ==
    /\ RowWalked
    /\ lastRow.row.cell.tokens = <<"Non-RT-RIC", "O-CU-CP", "Non-RT RIC">>
    /\ Len(lastRow.calls) = 2
    /\ lastRow.calls[1].dst = "Non-RT RIC"
    /\ lastRow.calls[2].dst = "O-CU-CP"

\* the last row is the wildcard at a call site that passes no expansion base
WildcardWithoutBase ==
    /\ rowsDone > 0
    /\ ~lastRow.row.cell.isna
    /\ lastRow.row.cell.tokens \in {<<"all">>, <<"All">>, <<"ALL">>}
    /\ lastRow.row.expansion = <<None>>

\* C25: a row whose cell is the wildcard, at a call site whose expansion base
\* is None, ends the run with an error and writes no edge; it never completes
\* with zero edges. With a registered source the error is the TypeError of
\* iterating None.
C25_WildcardNoneAborts ==
    WildcardWithoutBase =>
       /\ pc = "error"
       /\ error # ""
       /\ lastRow.raised = error
       /\ lastRow.calls = <<>>
       /\ resolve_name_map(lastRow.row.node) \in DictKeys(TYPES_MAP) => error = "TypeError"

\* the row "All" of a registered threat at the call site of "Extra
\* Interfaces" ended the run with a TypeError, the nodes having been written
C25_Witness ==
    /\ WildcardWithoutBase
    /\ lastRow.row.cell.tokens = <<"All">>
    /\ lastRow.row.site = "None"
    /\ pc = "error"
    /\ error = "TypeError"
    /\ Len(NodeWrites) >= 2

\* C27: the row-side endpoint of every edge of a row is resolve_name_map of
\* the row key, under the type registered for that resolved name, not the
\* raw key: a row whose key is an alias key writes edges from the alias
\* target, and ends the run with an error, with no edge, when the target is
\* not registered.
C27_RowEndpointResolved ==
    rowsDone > 0 =>
       LET key == lastRow.row.node
           n == resolve_name_map(key)
       IN  /\ \A i \in 1..Len(lastRow.calls) :
                 /\ lastRow.calls[i].src = n
                 /\ lastRow.calls[i].src_type = DictGet(TYPES_MAP, n, None)
                 /\ n # key => lastRow.calls[i].src # key
           /\ n \notin DictKeys(TYPES_MAP) =>
                 (pc = "error" /\ lastRow.raised = "ValueError" /\ lastRow.calls = <<>>)

\* a row of the threat registered as "Non-RT-RIC" wrote an edge from the
\* component "Non-RT RIC", the alias target
C27_Witness ==
    /\ rowsDone > 0
    /\ lastRow.row.node = "Non-RT-RIC"
    /\ DictGet(TYPES_MAP, "Non-RT-RIC", None) = "Threat"
    /\ Len(lastRow.calls) >= 1
    /\ lastRow.calls[1].src = "Non-RT RIC"
    /\ lastRow.calls[1].src_type = "Component"

\* the cell of the last row is one token that is "all" in some letter case
SoleAll ==
    /\ Len(lastRow.row.cell.tokens) = 1
    /\ lastRow.row.cell.tokens[1] \in {"all", "All", "ALL"}

\* the cell of the last row has "all" among two or more tokens
AllAmongTokens ==
    /\ Len(lastRow.row.cell.tokens) > 1
    /\ \E i \in 1..Len(lastRow.row.cell.tokens) :
          lastRow.row.cell.tokens[i] \in {"all", "All", "ALL"}

\* C23: the wildcard expansion happens only for a cell whose trimmed token
\* list is one token equal to "all" in some letter case: an edge carries
\* all = TRUE only in such a row. A row with "all" among other tokens treats
\* it as a destination name like the others: it is resolved and looked up,
\* the row writes an edge to the entity of that name when it is registered
\* and ends the run with an error when it is not, the expansion base is not
\* used, and every edge of the row carries all = FALSE.
C23_WildcardSoleToken ==
    RowWalked =>
       /\ \A i \in 1..Len(lastRow.calls) :
             DictGet(lastRow.calls[i].metadata, "all", None) = SoleAll
       /\ AllAmongTokens =>
             /\ [i \in 1..Len(lastRow.calls) |-> lastRow.calls[i].dst]
                   = FirstOccurrences(NamedDestinations)
             /\ \A i \in 1..Len(lastRow.row.cell.tokens) :
                   LET t == lastRow.row.cell.tokens[i]
                       n == resolve_name_map(t)
                   IN  (t \in {"all", "All", "ALL"} /\ t \notin DROP_COMPONENTS)
                          => /\ n \notin DictKeys(TYPES_MAP) => lastRow.raised = "ValueError"
                             /\ lastRow.raised = ""
                                   => \E k \in 1..Len(lastRow.calls) :
                                         /\ lastRow.calls[k].dst = n
                                         /\ lastRow.calls[k].dst_type
                                               = DictGet(TYPES_MAP, n, None)

\* the row "O-CU-CP, All" at the call site with the components as expansion
\* base, a component named "All" being registered: two edges, the second to
\* that component, both with all = FALSE
C23_Witness ==
    /\ RowWalked
    /\ lastRow.row.cell.tokens = <<"O-CU-CP", "All">>
    /\ lastRow.row.site = "all_components"
    /\ lastRow.raised = ""
    /\ Len(lastRow.calls) = 2
    /\ lastRow.calls[2].dst = "All"
    /\ lastRow.calls[2].dst_type = "Component"
    /\ DictGet(lastRow.calls[1].metadata, "all", None) = FALSE
    /\ DictGet(lastRow.calls[2].metadata, "all", None) = FALSE

\* C26: every node written has its `name` attribute equal to the name it is
\* registered under in TYPES_MAP, whatever the metadata columns are, a column
\* whose sanitized key is "name" included: the k-th node write carries the
\* k-th registered name
C26_NameIsRegisteredName ==
    \A k \in 1..Len(NodeWrites) :
       /\ k <= Len(all_nodes)
       /\ NodeName(NodeWrites[k]) = all_nodes[k]

\* C30: sanitizing the attribute keys loses none: for every node the loop
\* has written, cleanup_key_names of its metadata has as many keys as the
\* metadata itself
C30_NoKeyLost ==
    \A k \in 1..nodeIdx :
       LET d == get_node_metadata(all_nodes[k])
       IN  Cardinality(DictKeys(cleanup_key_names(d))) = Cardinality(DictKeys(d))

====
